---- MODULE Spec2Model ----
(***************************************************************************)
(* Steam Games Exporter: the asynchronous enrichment pipeline.             *)
(*                                                                         *)
(* The model follows src/sge/__init__.py (GameInfoFetcher, cleanup),       *)
(* src/sge/views.py (the request path) and src/sge/db.py (the three tables *)
(* and in_query_chunked).  Each action is one step of a thread between two *)
(* points where another thread can observe or change shared state (a       *)
(* committed transaction, a read of the store, a read or write of          *)
(* rate_limited / _terminate, an operation on the condition variable).     *)
(***************************************************************************)
EXTENDS Integers, Sequences, FiniteSets, TLC

(* ------------------------------ bounds -------------------------------- *)
MaxId == 2          \* identifiers are 1..MaxId
NumClients == 2     \* concurrent web clients
MaxJobs == 2        \* db.Request objects constructed in one run
MaxTicks == 1       \* advances of the wall clock in one run
MaxCleanups == 1
MaxRetries == 2     \* largest max_retries a call of query() is given
MaxSends == 3       \* requests one APISession sends
MaxChunkLen == 3    \* longest in_value given to in_query_chunked
MaxBatchSize == 2   \* largest batch_size given to in_query_chunked
MaxElapse == 3      \* time that passes in a session besides its own sleeps

(* ------------------------- program constants -------------------------- *)
COOKIE_MAX_AGE == 172800
SQLITE_MAX_VARIABLE_NUMBER == 999
QUEUE_BATCH_LIMIT == 20
RATE_LIMIT_TIMEOUT == 60
ERROR_TIMEOUT == 10

Ids == 1..MaxId
Clients == 1..NumClients
NoCookie == 0
\* games_export_config with a format test that lets every value through
KnownFormatsUnchecked == {"ods", "xls", "xlsx", "csv", "not a format"}
KnownFormats == {"ods", "xls", "xlsx", "csv"}
\* the formats db.Request.__init__ accepts
RequestFormats == {"ods", "xls", "xlsx", "csv"}
FormFormats == {"csv", "not a format"}

Range(s) == {s[i] : i \in 1..Len(s)}
\* the lists of distinct identifiers a profile can hold, in profile order
IdLists == {s \in UNION {[1..n -> Ids] : n \in 0..MaxId} :
              \A i, j \in 1..Len(s) : i # j => s[i] # s[j]}

VARIABLES
    now,            \* int(time.time())
    ticks,          \* how often the clock advanced
    games_info,     \* table games_info: sequence of rows [appid, unavailable]
    games_queue,    \* table games_queue: set of rows [appid, job_uuid, timestamp]
    requests_queue, \* table requests_queue: set of rows [job_uuid, timestamp, games_json, export_format]
    uuids,          \* number of uuid4() values drawn so far
    cleanups,       \* number of cleanup() runs so far
    \* GameInfoFetcher
    terminate,      \* self._terminate
    rate_limited,   \* self.rate_limited
    cond_owner,     \* who holds self.condition's lock: "none", "fetcher"
    waiting,        \* the fetcher is blocked in condition.wait()
    notified,       \* who released the fetcher's waiter: "none", "request", "forced"
    wait_timeout,   \* timeout argument of the current _wait() call, 0 for None
    wait_rl,        \* rate_limited argument of the current _wait() call
    w_pc,           \* position of run()
    w_batch,        \* queue_batch: the appids (primary keys) of the rows read
    w_i,            \* index of queue_item in queue_batch
    w_result,       \* what query_store() returned or raised for queue_item
    w_after,        \* where run() continues after _wait() returns
    \* shutdown_notify thread
    sd_pc,
    \* request path, per client
    cookie,         \* the client's job cookie
    pc,             \* position of the request being handled
    view,           \* "submit" (POST /export) or "poll" (request with a job cookie)
    req_ids,        \* requested_ids, in profile order
    req_format,     \* export format
    job_row,        \* flask.g.job_db_row (its job_uuid), NoCookie if unset
    missing,        \* missing_ids
    seen_cached,    \* the requested identifiers that had a cache row at the cache lookup
    seen_queued,    \* the requested identifiers that had a queue row at the cache lookup
    new_request,    \* the db.Request built by prepare_extended_export
    new_queue,      \* the db.Queue rows built by prepare_extended_export
    resp,           \* the response of the request, once it is built
    \* APISession.query
    q_pc,           \* "idle", "throttle", "send", "sleep", "returned", "raised"
    q_max_retries,  \* max_retries
    q_retry_count,  \* retry_count
    q_log,          \* what each send of this call met, in order
    q_delay,        \* the delay of the last retry sleep
    q_result,       \* what the call returned or raised
    q_host,         \* netloc of the call's url
    q_min_delay,    \* min_delay
    q_now,          \* time.time(), in units of half a second
    access_times,   \* self.access_times, 0 for a netloc that has no entry
    q_sends,        \* every send of the session: [host, at, min_delay]
    \* db.in_query_chunked
    c_pc,           \* "idle", "loop", "done"
    c_table,        \* the rows of the table that is queried
    c_target,       \* query_target: the column "appid" or the entity "GameInfo"
    c_arg,          \* in_value as it was passed
    c_batch_size,   \* batch_size
    c_in_value,     \* in_value, what is left of it
    c_return,       \* query_return
    c_queries,      \* the number of parameters of each query issued
    \* the process
    jobs_at_restart \* the tokens of the jobs in the store when the process was restarted

storeVars == <<games_info, games_queue, requests_queue>>
clockVars == <<now, ticks>>
chunkVars == <<c_pc, c_table, c_target, c_arg, c_batch_size, c_in_value, c_return,
               c_queries>>
condVars == <<cond_owner, waiting, notified, wait_timeout, wait_rl>>
workerVars == <<w_pc, w_batch, w_i, w_result, w_after>>
queryVars == <<q_pc, q_max_retries, q_retry_count, q_log, q_delay, q_result,
               q_host, q_min_delay, q_now, access_times, q_sends>>
clientVars == <<cookie, pc, view, req_ids, req_format, job_row, missing,
                seen_cached, seen_queued, new_request, new_queue, resp>>
vars == <<now, ticks, games_info, games_queue, requests_queue, uuids, cleanups,
          terminate, rate_limited, cond_owner, waiting, notified, wait_timeout,
          wait_rl, w_pc, w_batch, w_i, w_result, w_after, sd_pc,
          cookie, pc, view, req_ids, req_format, job_row, missing,
          seen_cached, seen_queued, new_request, new_queue, resp,
          q_pc, q_max_retries, q_retry_count, q_log, q_delay, q_result,
          q_host, q_min_delay, q_now, access_times, q_sends,
          c_pc, c_table, c_target, c_arg, c_batch_size, c_in_value, c_return,
          c_queries, jobs_at_restart>>

(* ------------------------------ the store ------------------------------ *)
Min(a, b) == IF a < b THEN a ELSE b

\* the identifiers that have a row in games_info
CachedIds(info) == {info[i].appid : i \in 1..Len(info)}
\* the identifiers that have a row in games_queue
QueuedIds(queue) == {q.appid : q \in queue}
\* the tokens that have a row in requests_queue
JobTokens(reqs) == {r.job_uuid : r \in reqs}

\* SELECT <target> FROM games_info WHERE appid IN batch, then .scalars().all():
\* the first column of each row, i.e. the appid for target "appid" and the
\* mapped object for target "GameInfo"
SelectGameInfoIn(info, target, batch) ==
    LET hits == SelectSeq(info, LAMBDA r : r.appid \in Range(batch))
    IN  IF target = "appid" THEN [i \in 1..Len(hits) |-> hits[i].appid] ELSE hits

\* games_queue rows in rowid order (appid is the INTEGER PRIMARY KEY)
RECURSIVE QueueAppidsIn(_, _)
QueueAppidsIn(queue, n) ==
    IF n = 0 THEN <<>>
    ELSE QueueAppidsIn(queue, n - 1)
         \o [i \in 1..Cardinality({q \in queue : q.appid = n}) |-> n]

\* SELECT appid FROM games_queue WHERE appid IN batch, then .scalars().all()
SelectQueueIn(queue, batch) ==
    SelectSeq(QueueAppidsIn(queue, MaxId), LAMBDA a : a \in Range(batch))

\* in_query_chunked with a slice that starts one element late
ChunkRestSkipsOne(in_value, batch_size) ==
    SubSeq(in_value, batch_size + 2, Len(in_value))

\* batch = in_value[:batch_size]
ChunkBatch(in_value, batch_size) ==
    SubSeq(in_value, 1, Min(batch_size, Len(in_value)))
\* in_value = in_value[batch_size:]
ChunkRest(in_value, batch_size) ==
    SubSeq(in_value, batch_size + 1, Len(in_value))

\* db.in_query_chunked over a table given as its select function
RECURSIVE in_query_chunked(_, _, _, _, _)
in_query_chunked(table, kind, target, in_value, batch_size) ==
    IF in_value = <<>> THEN <<>>
    ELSE LET batch == ChunkBatch(in_value, batch_size)
             rest == ChunkRest(in_value, batch_size)
             found == IF kind = "games_info"
                      THEN SelectGameInfoIn(table, target, batch)
                      ELSE SelectQueueIn(table, batch)
         IN  found \o in_query_chunked(table, kind, target, rest, batch_size)

\* the comprehension over rows that are tuples: it yields their first columns
FlattenRowsOfTuples(rows) == [raised |-> FALSE, value |-> Range(rows)]

\* [row[0] for row in rows] where rows came out of .scalars(): the elements are
\* plain integers, and subscripting an integer raises TypeError
FlattenRows(rows) ==
    IF Len(rows) = 0 THEN [raised |-> FALSE, value |-> {}]
    ELSE [raised |-> TRUE, value |-> {}]

\* views.check_for_missing_ids
check_for_missing_ids(info, requested_ids) ==
    LET available_ids == FlattenRows(in_query_chunked(
            info, "games_info", "appid", requested_ids, SQLITE_MAX_VARIABLE_NUMBER))
    IN  IF available_ids.raised THEN [raised |-> TRUE, value |-> {}]
        ELSE [raised |-> FALSE, value |-> Range(requested_ids) \ available_ids.value]

(* --------------------------- the fetch worker --------------------------- *)
\* what APISession.query_store can hand to run(): a GameInfo built from the
\* store's answer ("ok"), a GameInfo with unavailable=True ("unavailable"),
\* or an exception of one of these classes
StoreResults == {"ok", "unavailable", "HTTPError429", "HTTPError", "Timeout",
                 "ConnectionError", "ValueError", "KeyError"}
GameInfoResults == {"ok", "unavailable"}
\* except (requests.HTTPError, requests.Timeout, requests.ConnectionError)
NetworkErrors == {"HTTPError429", "HTTPError", "Timeout", "ConnectionError"}
\* except Exception: every other class query_store and commit can raise
OtherExceptions == {"ValueError", "KeyError", "IntegrityError"}

\* exc.response: the Response of an HTTPError, None for the other classes
HasResponse(exc) == exc \in {"HTTPError429", "HTTPError"}
\* bool(exc.response): None is false, and requests.Response.__bool__ is
\* Response.ok, false for every status raise_for_status() raises on
StatusCode(exc) == IF exc = "HTTPError429" THEN 429 ELSE 500
ResponseTruth(exc) == HasResponse(exc) /\ StatusCode(exc) < 400
\* `exc.response and exc.response.status_code == 429`
DetectedRateLimit(exc) == ResponseTruth(exc) /\ StatusCode(exc) = 429
\* the timeout run() passes to _wait() after a network error
NetworkErrorTimeout(exc) ==
    IF DetectedRateLimit(exc) THEN RATE_LIMIT_TIMEOUT ELSE ERROR_TIMEOUT

\* run() with its `except Exception` clause left out
ExceptClauseNetworkOnly(exc) ==
    IF exc \in NetworkErrors THEN "network" ELSE "uncaught"

\* which except clause of run() takes the exception
ExceptClause(exc) ==
    IF exc \in NetworkErrors THEN "network"
    ELSE IF exc \in OtherExceptions THEN "exception"
    ELSE "uncaught"

\* an ORDER BY that puts the newest rows first
OldestDescending(queue) ==
    {q \in queue : \A p \in queue : q.timestamp >= p.timestamp}

\* order_by(Queue.timestamp.asc()): the rows that can come first (rows of
\* equal timestamp come in any order)
Oldest(queue) ==
    {q \in queue : \A p \in queue : q.timestamp <= p.timestamp}

\* the first n rows of the ordered result, in every order the engine may
\* return
RECURSIVE OrderedRows(_, _)
OrderedRows(queue, n) ==
    IF n = 0 THEN {<<>>}
    ELSE UNION {{<<q>> \o rest : rest \in OrderedRows(queue \ {q}, n - 1)} :
                   q \in Oldest(queue)}

\* select(Queue).order_by(Queue.timestamp.asc()).limit(limit)
QueueBatches(queue, limit) ==
    OrderedRows(queue, Min(limit, Cardinality(queue)))

\* games_info with appid not declared as its key: no row is found by key
GameInfoByKeyUnkeyed(info, appid) == {}

\* GameInfo.appid is the primary key: the rows the key identifies
GameInfoByKey(info, appid) == {i \in 1..Len(info) : info[i].appid = appid}

\* run() without its lookup of the identifier in the cache
GetGameInfoSkipped(info, appid) == FALSE

\* db_session.get(db.GameInfo, appid)
GetGameInfo(info, appid) == GameInfoByKey(info, appid) # {}

\* an insert that is not made durable by the commit that deletes the entry
InsertGameInfoLost(info, row) == [raised |-> FALSE, value |-> info]

\* INSERT INTO games_info: a second row for the same key is refused
\* (IntegrityError)
InsertGameInfo(info, row) ==
    IF GameInfoByKey(info, row.appid) # {}
    THEN [raised |-> TRUE, value |-> info]
    ELSE [raised |-> FALSE, value |-> Append(info, row)]

\* a delete that leaves the entry in the queue
DeleteQueueItemKept(queue, appid) == queue

\* DELETE FROM games_queue WHERE appid = :appid (the row's primary key)
DeleteQueueItem(queue, appid) == {q \in queue : q.appid # appid}

\* an update of the timestamp that is not written
TouchQueueItemUnwritten(queue, appid, ts) == queue

\* UPDATE games_queue SET timestamp = :ts WHERE appid = :appid
TouchQueueItem(queue, appid, ts) ==
    {IF q.appid = appid THEN [q EXCEPT !.timestamp = ts] ELSE q : q \in queue}

queue_item == w_batch[w_i]

\* the for loop moves to the next queue_item, or falls out to `while True`
ForNext ==
    IF w_i < Len(w_batch)
    THEN /\ w_i' = w_i + 1
         /\ w_pc' = "item"
         /\ UNCHANGED w_batch
    ELSE /\ w_i' = 0
         /\ w_batch' = <<>>
         /\ w_pc' = "loop"

\* `break`, or `continue` of the while loop
ForLeave ==
    /\ w_i' = 0
    /\ w_batch' = <<>>
    /\ w_pc' = "loop"

\* run(): `if self._terminate.is_set(): ... return` at the top of the loop
W_CheckTerminate ==
    /\ w_pc = "loop"
    /\ w_pc' = IF terminate THEN "exited" ELSE "read_queue"
    /\ UNCHANGED <<jobs_at_restart, chunkVars, queryVars, clockVars, storeVars, uuids, cleanups, terminate, rate_limited,
                   condVars, w_batch, w_i, w_result, w_after, sd_pc, clientVars>>

\* run(): read the batch; an empty batch calls self._wait()
W_ReadQueue ==
    /\ w_pc = "read_queue"
    /\ \E b \in QueueBatches(games_queue, QUEUE_BATCH_LIMIT) :
         IF Len(b) = 0
         THEN /\ w_pc' = "wait_enter"
              /\ wait_timeout' = 0
              /\ wait_rl' = FALSE
              /\ w_after' = "while"
              /\ UNCHANGED <<w_batch, w_i>>
         ELSE /\ w_batch' = [i \in 1..Len(b) |-> b[i].appid]
              /\ w_i' = 1
              /\ w_pc' = "item"
              /\ UNCHANGED <<wait_timeout, wait_rl, w_after>>
    /\ UNCHANGED <<jobs_at_restart, chunkVars, queryVars, clockVars, storeVars, uuids, cleanups, terminate, rate_limited,
                   cond_owner, waiting, notified, w_result, sd_pc, clientVars>>

\* run(): the termination check at the head of the for body
W_ItemTerminate ==
    /\ w_pc = "item"
    /\ w_pc' = IF terminate THEN "exited" ELSE "item_known"
    /\ UNCHANGED <<jobs_at_restart, chunkVars, queryVars, clockVars, storeVars, uuids, cleanups, terminate, rate_limited,
                   condVars, w_batch, w_i, w_result, w_after, sd_pc, clientVars>>

\* run(): an item whose appid already has a GameInfo row is deleted and
\* committed without a fetch
W_ItemKnown ==
    /\ w_pc = "item_known"
    /\ IF GetGameInfo(games_info, queue_item)
       THEN /\ games_queue' = DeleteQueueItem(games_queue, queue_item)
            /\ ForNext
       ELSE /\ w_pc' = "fetch"
            /\ UNCHANGED <<games_queue, w_batch, w_i>>
    /\ UNCHANGED <<jobs_at_restart, chunkVars, queryVars, clockVars, games_info, requests_queue, uuids, cleanups, terminate,
                   rate_limited, condVars, w_result, w_after, sd_pc, clientVars>>

\* run(): game_info = api_session.query_store(queue_item.appid)
W_FetchFrom(results) ==
    /\ w_pc = "fetch"
    /\ \E r \in results :
         /\ w_result' = r
         /\ w_pc' = IF r \in GameInfoResults THEN "store" ELSE "except"
    /\ UNCHANGED <<jobs_at_restart, chunkVars, queryVars, clockVars, storeVars, uuids, cleanups, terminate, rate_limited,
                   condVars, w_batch, w_i, w_after, sd_pc, clientVars>>

\* the identifiers whose fetch fails on every attempt: as many as a pass reads
Poisoned == 1..QUEUE_BATCH_LIMIT
\* run(): game_info = api_session.query_store(queue_item.appid), when the store
\* fails for the poisoned identifiers, with a network error of any class, and
\* answers for the others
W_FetchPoisoned ==
    /\ w_pc = "fetch"
    /\ \E r \in IF queue_item \in Poisoned THEN NetworkErrors ELSE {"ok"} :
         /\ w_result' = r
         /\ w_pc' = IF r \in GameInfoResults THEN "store" ELSE "except"
    /\ UNCHANGED <<jobs_at_restart, chunkVars, queryVars, clockVars, storeVars, uuids, cleanups, terminate, rate_limited,
                   condVars, w_batch, w_i, w_after, sd_pc, clientVars>>

\* a worker that looks at the termination flag between the insert and the
\* delete, and leaves with the insert alone committed
W_StoreInterrupted ==
    /\ w_pc = "store"
    /\ IF terminate
       THEN /\ games_info' = Append(games_info,
                   [appid |-> queue_item, unavailable |-> (w_result = "unavailable")])
            /\ w_pc' = "exited"
            /\ UNCHANGED <<games_queue, w_batch, w_i>>
       ELSE /\ games_info' = Append(games_info,
                   [appid |-> queue_item, unavailable |-> (w_result = "unavailable")])
            /\ games_queue' = DeleteQueueItem(games_queue, queue_item)
            /\ ForNext
    /\ w_result' = "none"
    /\ UNCHANGED <<jobs_at_restart, chunkVars, queryVars, clockVars, requests_queue, uuids, cleanups, terminate, rate_limited,
                   condVars, w_after, sd_pc, clientVars>>

\* run(): db_session.add(game_info); db_session.delete(queue_item); commit()
W_Store ==
    /\ w_pc = "store"
    /\ LET ins == InsertGameInfo(games_info,
                     [appid |-> queue_item, unavailable |-> (w_result = "unavailable")])
       IN  IF ins.raised
           THEN /\ w_result' = "IntegrityError"
                /\ w_pc' = "except"
                /\ UNCHANGED <<games_info, games_queue, w_batch, w_i>>
           ELSE /\ games_info' = ins.value
                /\ games_queue' = DeleteQueueItem(games_queue, queue_item)
                /\ w_result' = "none"
                /\ ForNext
    /\ UNCHANGED <<jobs_at_restart, chunkVars, queryVars, clockVars, requests_queue, uuids, cleanups, terminate, rate_limited,
                   condVars, w_after, sd_pc, clientVars>>

\* run(): the two except clauses, up to their call of self._wait()
W_Except ==
    /\ w_pc = "except"
    /\ IF ExceptClause(w_result) = "network"
       THEN /\ wait_timeout' = NetworkErrorTimeout(w_result)
            /\ wait_rl' = TRUE
            /\ w_after' = "continue"
            /\ w_pc' = "wait_enter"
            /\ UNCHANGED games_queue
       ELSE IF ExceptClause(w_result) = "exception"
       THEN \* rollback(); queue_item.timestamp = int(time.time()); commit()
            /\ games_queue' = TouchQueueItem(games_queue, queue_item, now)
            /\ wait_timeout' = ERROR_TIMEOUT
            /\ wait_rl' = TRUE
            /\ w_after' = "break"
            /\ w_pc' = "wait_enter"
       ELSE \* the exception leaves run(): the thread dies
            /\ w_pc' = "crashed"
            /\ UNCHANGED <<games_queue, wait_timeout, wait_rl, w_after>>
    /\ w_result' = "none"
    /\ UNCHANGED <<jobs_at_restart, chunkVars, queryVars, clockVars, games_info, requests_queue, uuids, cleanups, terminate,
                   rate_limited, cond_owner, waiting, notified, w_batch, w_i,
                   sd_pc, clientVars>>

\* a wait that sleeps with the condition's lock held
W_WaitEnterHoldingLock ==
    /\ w_pc = "wait_enter"
    /\ cond_owner = "none"
    /\ cond_owner' = "fetcher"
    /\ rate_limited' = wait_rl
    /\ waiting' = TRUE
    /\ notified' = "none"
    /\ w_pc' = "waiting"
    /\ UNCHANGED <<jobs_at_restart, chunkVars, queryVars, clockVars, storeVars, uuids, cleanups, terminate,
                   wait_timeout, wait_rl, w_batch, w_i, w_result, w_after, sd_pc,
                   clientVars>>

\* _wait(): acquire the condition, set self.rate_limited, condition.wait()
\* (which releases the lock and blocks)
W_WaitEnter ==
    /\ w_pc = "wait_enter"
    /\ cond_owner = "none"
    /\ rate_limited' = wait_rl
    /\ waiting' = TRUE
    /\ notified' = "none"
    /\ w_pc' = "waiting"
    /\ UNCHANGED <<jobs_at_restart, chunkVars, queryVars, clockVars, storeVars, uuids, cleanups, terminate, cond_owner,
                   wait_timeout, wait_rl, w_batch, w_i, w_result, w_after, sd_pc,
                   clientVars>>

\* condition.wait() returns: the waiter was notified or the timeout elapsed,
\* and the lock is taken again
W_WakeUp ==
    /\ w_pc = "waiting"
    /\ notified # "none" \/ wait_timeout # 0
    /\ cond_owner = "none"
    /\ cond_owner' = "fetcher"
    /\ waiting' = FALSE
    /\ w_pc' = "wait_exit"
    /\ UNCHANGED <<jobs_at_restart, chunkVars, queryVars, clockVars, storeVars, uuids, cleanups, terminate, rate_limited,
                   notified, wait_timeout, wait_rl, w_batch, w_i, w_result, w_after,
                   sd_pc, clientVars>>

\* _wait(): finally: condition.release(); self.rate_limited = False; then run()
\* goes on where the call was made
W_WaitExit ==
    /\ w_pc = "wait_exit"
    /\ cond_owner' = "none"
    /\ rate_limited' = FALSE
    /\ IF w_after = "continue" THEN ForNext ELSE ForLeave
    \* the call's arguments and its waiter are gone
    /\ wait_timeout' = 0
    /\ wait_rl' = FALSE
    /\ w_after' = "while"
    /\ notified' = "none"
    /\ UNCHANGED <<jobs_at_restart, chunkVars, queryVars, clockVars, storeVars, uuids, cleanups, terminate, waiting,
                   w_result, sd_pc, clientVars>>

\* a queue of one entry more than a pass reads, as submits of one identifier
\* each leave it: entry i was queued in second (i + r) modulo the number of
\* entries; with `tie`, the two newest entries were queued in the same second
FilledQueue(r, tie) ==
    {[appid |-> i, job_uuid |-> i,
      timestamp |-> LET second == (i + r) % (QUEUE_BATCH_LIMIT + 1)
                    IN  IF tie THEN Min(second, QUEUE_BATCH_LIMIT - 1) ELSE second] :
        i \in 1..(QUEUE_BATCH_LIMIT + 1)}

\* the worker starts on a queue that earlier submits have filled (their job
\* rows, which the worker never reads, are left out)
FillQueue ==
    /\ w_pc = "loop"
    /\ games_queue = {}
    /\ games_info = <<>>
    /\ uuids = 0
    /\ now = 0
    /\ \E r \in 0..QUEUE_BATCH_LIMIT, tie \in BOOLEAN :
         games_queue' = FilledQueue(r, tie)
    /\ uuids' = QUEUE_BATCH_LIMIT + 1
    /\ now' = QUEUE_BATCH_LIMIT + 1
    /\ UNCHANGED <<jobs_at_restart, chunkVars, queryVars, ticks, games_info, requests_queue, cleanups,
                   terminate, rate_limited, condVars, workerVars, sd_pc, clientVars>>

(* ------------------------- the shutdown notifier ------------------------ *)
\* shutdown_notify: the main thread stopped; fetcher_thread._terminate.set()
SD_Terminate ==
    /\ sd_pc = "join"
    /\ terminate' = TRUE
    /\ sd_pc' = "notify"
    /\ UNCHANGED <<jobs_at_restart, chunkVars, queryVars, clockVars, storeVars, uuids, cleanups, rate_limited, condVars,
                   workerVars, clientVars>>

\* notify(force)'s test `not self.rate_limited or (force and self.rate_limited)`
NotifyPasses(force, rl) == ~rl \/ (force /\ rl)

\* notify_all() under the condition's lock: releases the waiter, if there is one
NotifyAll(who) == IF waiting /\ notified = "none" THEN who ELSE notified

\* shutdown_notify: fetcher_thread.notify(force=True)
SD_Notify ==
    /\ sd_pc = "notify"
    /\ cond_owner = "none"
    /\ notified' = IF NotifyPasses(TRUE, rate_limited) THEN NotifyAll("forced")
                   ELSE notified
    /\ sd_pc' = "done"
    /\ UNCHANGED <<jobs_at_restart, chunkVars, queryVars, clockVars, storeVars, uuids, cleanups, terminate, rate_limited,
                   cond_owner, waiting, wait_timeout, wait_rl, workerVars, clientVars>>

(* ------------------------------ maintenance ----------------------------- *)
\* cleanup() with `<` for `<=`
cleanup_strict(reqs, time) ==
    LET cutoff == time - COOKIE_MAX_AGE
    IN  {r \in reqs : ~(r.timestamp < cutoff)}

\* cleanup(): DELETE FROM requests_queue WHERE timestamp <= cutoff; VACUUM
cleanup(reqs, time) ==
    LET cutoff == time - COOKIE_MAX_AGE
    IN  {r \in reqs : ~(r.timestamp <= cutoff)}

\* a maintenance run whose delete cascades to the queue entries of the jobs
CleanupCascades ==
    /\ cleanups < MaxCleanups
    /\ cleanups' = cleanups + 1
    /\ requests_queue' = cleanup(requests_queue, now)
    /\ games_queue' = {q \in games_queue :
                          q.job_uuid \in JobTokens(cleanup(requests_queue, now))}
    /\ UNCHANGED <<jobs_at_restart, chunkVars, queryVars, clockVars, games_info, uuids, terminate, rate_limited,
                   condVars, workerVars, sd_pc, clientVars>>

\* a maintenance run that purges the cache along with the old jobs
CleanupPurgesCache ==
    /\ cleanups < MaxCleanups
    /\ cleanups' = cleanups + 1
    /\ requests_queue' = cleanup(requests_queue, now)
    /\ games_info' = <<>>
    /\ UNCHANGED <<jobs_at_restart, chunkVars, queryVars, clockVars, games_queue, uuids, terminate, rate_limited,
                   condVars, workerVars, sd_pc, clientVars>>

\* cleanup(), run by the daily cron signal
Cleanup ==
    /\ cleanups < MaxCleanups
    /\ cleanups' = cleanups + 1
    /\ requests_queue' = cleanup(requests_queue, now)
    /\ UNCHANGED <<jobs_at_restart, chunkVars, queryVars, clockVars, games_info, games_queue, uuids, terminate, rate_limited,
                   condVars, workerVars, sd_pc, clientVars>>

\* the wall clock advances by d seconds
Advance(d) ==
    /\ ticks < MaxTicks
    /\ ticks' = ticks + 1
    /\ now' = now + d
    /\ UNCHANGED <<jobs_at_restart, chunkVars, queryVars, storeVars, uuids, cleanups, terminate, rate_limited,
                   condVars, workerVars, sd_pc, clientVars>>

\* a second passes
Tick == Advance(1)
\* a second or the whole retention window passes
TickLong == \E d \in {1, COOKIE_MAX_AGE} : Advance(d)

(* ---------------------------- the request path -------------------------- *)
NoRequest == [job_uuid |-> NoCookie, timestamp |-> 0, games_json |-> <<>>,
              export_format |-> "csv"]
\* a response: the status, the count in its message, the exported table, and the
\* Set-Cookie for "job" (<<>>: none, <<v>>: set to v, <<NoCookie>>: cleared)
Response(status, count, table, set_cookie) ==
    [status |-> status, count |-> count, table |-> table, set_cookie |-> set_cookie]
NoResponse == Response(0, 0, <<>>, <<>>)

\* list(missing_ids)
RECURSIVE SetToSeq(_)
SetToSeq(S) ==
    IF S = {} THEN <<>>
    ELSE LET m == CHOOSE x \in S : \A y \in S : x <= y
         IN  <<m>> \o SetToSeq(S \ {m})

\* the view returns (or raises, status 500): the response is ready to be sent
Respond(c, r) ==
    /\ resp' = [resp EXCEPT ![c] = r]
    /\ pc' = [pc EXCEPT ![c] = "done"]

\* the client lost its job cookie
DropCookie(c) ==
    /\ pc[c] = "idle"
    /\ cookie[c] # NoCookie
    /\ cookie' = [cookie EXCEPT ![c] = NoCookie]
    /\ UNCHANGED <<jobs_at_restart, chunkVars, queryVars, clockVars, storeVars, uuids, cleanups, terminate, rate_limited,
                   condVars, workerVars, sd_pc, pc, view, req_ids, req_format,
                   job_row, missing, seen_cached, seen_queued, new_request,
                   new_queue, resp>>

\* load_job for a request that carries a job cookie; games_export_config routes
\* a known job to check_extended_export and, with no steamid in the session,
\* anything else to the index
BeginPoll(c) ==
    /\ pc[c] = "idle"
    /\ cookie[c] # NoCookie
    /\ view' = [view EXCEPT ![c] = "poll"]
    /\ IF cookie[c] \in JobTokens(requests_queue)
       THEN LET job == CHOOSE r \in requests_queue : r.job_uuid = cookie[c]
            IN  /\ job_row' = [job_row EXCEPT ![c] = job.job_uuid]
                /\ req_ids' = [req_ids EXCEPT ![c] = job.games_json]
                /\ req_format' = [req_format EXCEPT ![c] = job.export_format]
                /\ pc' = [pc EXCEPT ![c] = "check"]
                /\ UNCHANGED resp
       ELSE \* flask.g.clear_job_cookie = True; redirect
            /\ Respond(c, Response(302, 0, <<>>, <<NoCookie>>))
            /\ UNCHANGED <<job_row, req_ids, req_format>>
    /\ UNCHANGED <<jobs_at_restart, chunkVars, queryVars, clockVars, storeVars, uuids, cleanups, terminate, rate_limited,
                   condVars, workerVars, sd_pc, cookie, missing, seen_cached,
                   seen_queued, new_request, new_queue>>

\* POST /export with include-gameinfo and no job cookie: games_export_config
\* checks the format, prepare_extended_export fetches the profile
BeginSubmit(c) ==
    /\ pc[c] = "idle"
    /\ cookie[c] = NoCookie
    /\ uuids < MaxJobs
    /\ view' = [view EXCEPT ![c] = "submit"]
    /\ \E fmt \in FormFormats, has_profile \in BOOLEAN, games \in IdLists :
         /\ has_profile \/ games = <<>>
         /\ req_format' = [req_format EXCEPT ![c] = fmt]
         /\ IF fmt \notin KnownFormats
            THEN \* flask.abort(400)
                 /\ Respond(c, Response(400, 0, <<>>, <<>>))
                 /\ UNCHANGED req_ids
            ELSE IF ~has_profile
            THEN \* `if not profile_json`: MSG_MISSING_GAMES
                 /\ Respond(c, Response(404, 0, <<>>, <<>>))
                 /\ UNCHANGED req_ids
            ELSE /\ req_ids' = [req_ids EXCEPT ![c] = games]
                 /\ pc' = [pc EXCEPT ![c] = "check"]
                 /\ UNCHANGED resp
    /\ UNCHANGED <<jobs_at_restart, chunkVars, queryVars, clockVars, storeVars, uuids, cleanups, terminate, rate_limited,
                   condVars, workerVars, sd_pc, cookie, job_row, missing,
                   seen_cached, seen_queued, new_request, new_queue>>

\* check_extended_export without its check: a poll goes on to finalize
\* whatever the cache holds
CheckMissingPollUnchecked(c) ==
    /\ pc[c] = "check"
    /\ seen_cached' = [seen_cached EXCEPT ![c] = CachedIds(games_info) \cap Range(req_ids[c])]
    /\ seen_queued' = [seen_queued EXCEPT ![c] = QueuedIds(games_queue) \cap Range(req_ids[c])]
    /\ LET r == check_for_missing_ids(games_info, req_ids[c])
       IN  IF view[c] = "poll"
           THEN /\ pc' = [pc EXCEPT ![c] = "finalize"]
                /\ UNCHANGED <<uuids, resp, missing, new_request>>
           ELSE IF r.raised
           THEN /\ Respond(c, Response(500, 0, <<>>, <<>>))
                /\ UNCHANGED <<uuids, missing, new_request>>
           ELSE IF r.value = {}
           THEN /\ pc' = [pc EXCEPT ![c] = "finalize"]
                /\ UNCHANGED <<uuids, resp, missing, new_request>>
           ELSE IF view[c] = "poll"
           THEN \* MSG_PROCESSING_QUEUE, 202
                /\ Respond(c, Response(202, Cardinality(r.value), <<>>, <<>>))
                /\ UNCHANGED <<uuids, missing, new_request>>
           ELSE IF req_format[c] \notin RequestFormats
           THEN \* db.Request.__init__ raises ValueError
                /\ Respond(c, Response(500, 0, <<>>, <<>>))
                /\ UNCHANGED <<uuids, missing, new_request>>
           ELSE \* new_request = db.Request(games_json, file_format)
                /\ uuids' = uuids + 1
                /\ new_request' = [new_request EXCEPT ![c] =
                       [job_uuid |-> uuids + 1, timestamp |-> now,
                        games_json |-> req_ids[c], export_format |-> req_format[c]]]
                /\ missing' = [missing EXCEPT ![c] = r.value]
                /\ pc' = [pc EXCEPT ![c] = "check_queue"]
                /\ UNCHANGED resp
    /\ UNCHANGED <<jobs_at_restart, chunkVars, queryVars, clockVars, storeVars, cleanups, terminate, rate_limited, condVars,
                   workerVars, sd_pc, cookie, view, req_ids, req_format, job_row,
                   new_queue>>

\* check_for_missing_ids(requested_ids), in prepare_extended_export and in
\* check_extended_export, and what each does with the answer
CheckMissing(c) ==
    /\ pc[c] = "check"
    /\ seen_cached' = [seen_cached EXCEPT ![c] = CachedIds(games_info) \cap Range(req_ids[c])]
    /\ seen_queued' = [seen_queued EXCEPT ![c] = QueuedIds(games_queue) \cap Range(req_ids[c])]
    /\ LET r == check_for_missing_ids(games_info, req_ids[c])
       IN  IF r.raised
           THEN /\ Respond(c, Response(500, 0, <<>>, <<>>))
                /\ UNCHANGED <<uuids, missing, new_request>>
           ELSE IF r.value = {}
           THEN /\ pc' = [pc EXCEPT ![c] = "finalize"]
                /\ UNCHANGED <<uuids, resp, missing, new_request>>
           ELSE IF view[c] = "poll"
           THEN \* MSG_PROCESSING_QUEUE, 202
                /\ Respond(c, Response(202, Cardinality(r.value), <<>>, <<>>))
                /\ UNCHANGED <<uuids, missing, new_request>>
           ELSE IF req_format[c] \notin RequestFormats
           THEN \* db.Request.__init__ raises ValueError
                /\ Respond(c, Response(500, 0, <<>>, <<>>))
                /\ UNCHANGED <<uuids, missing, new_request>>
           ELSE \* new_request = db.Request(games_json, file_format)
                /\ uuids' = uuids + 1
                /\ new_request' = [new_request EXCEPT ![c] =
                       [job_uuid |-> uuids + 1, timestamp |-> now,
                        games_json |-> req_ids[c], export_format |-> req_format[c]]]
                /\ missing' = [missing EXCEPT ![c] = r.value]
                /\ pc' = [pc EXCEPT ![c] = "check_queue"]
                /\ UNCHANGED resp
    /\ UNCHANGED <<jobs_at_restart, chunkVars, queryVars, clockVars, storeVars, cleanups, terminate, rate_limited, condVars,
                   workerVars, sd_pc, cookie, view, req_ids, req_format, job_row,
                   new_queue>>

\* prepare_extended_export: compare missing ids against the queued ids and
\* build the db.Queue rows
CheckQueue(c) ==
    /\ pc[c] = "check_queue"
    /\ LET queued_ids == FlattenRows(in_query_chunked(
               games_queue, "games_queue", "appid", SetToSeq(missing[c]),
               SQLITE_MAX_VARIABLE_NUMBER))
           still == missing[c] \ queued_ids.value
       IN  IF queued_ids.raised
           THEN /\ Respond(c, Response(500, 0, <<>>, <<>>))
                /\ UNCHANGED <<missing, new_queue>>
           ELSE /\ missing' = [missing EXCEPT ![c] = still]
                /\ new_queue' = [new_queue EXCEPT ![c] =
                       {[appid |-> a, job_uuid |-> new_request[c].job_uuid,
                         timestamp |-> now] : a \in still}]
                /\ pc' = [pc EXCEPT ![c] = "commit"]
                /\ UNCHANGED resp
    /\ UNCHANGED <<jobs_at_restart, chunkVars, queryVars, clockVars, storeVars, uuids, cleanups, terminate, rate_limited,
                   condVars, workerVars, sd_pc, cookie, view, req_ids, req_format,
                   job_row, seen_cached, seen_queued, new_request>>

\* a save that writes row by row and skips the rows whose key is taken
BulkSaveSkipsConflicts(reqs, queue, request, rows) ==
    [raised |-> FALSE, requests |-> reqs \cup {request},
     queue |-> queue \cup {q \in rows : q.appid \notin QueuedIds(queue)}]

\* bulk_save_objects(queue) in one transaction: a primary key that is already
\* in its table fails the whole transaction (IntegrityError)
BulkSave(reqs, queue, request, rows) ==
    IF \/ request.job_uuid \in JobTokens(reqs)
       \/ \E q \in rows : q.appid \in QueuedIds(queue)
    THEN [raised |-> TRUE, requests |-> reqs, queue |-> queue]
    ELSE [raised |-> FALSE, requests |-> reqs \cup {request}, queue |-> queue \cup rows]

\* prepare_extended_export: the 202 response with the job cookie, then
\* bulk_save_objects, commit, flask.g.queue_modified
Commit(c) ==
    /\ pc[c] = "commit"
    /\ LET saved == BulkSave(requests_queue, games_queue, new_request[c], new_queue[c])
       IN  IF saved.raised
           THEN /\ Respond(c, Response(500, 0, <<>>, <<>>))
                /\ UNCHANGED <<requests_queue, games_queue>>
           ELSE /\ requests_queue' = saved.requests
                /\ games_queue' = saved.queue
                /\ resp' = [resp EXCEPT ![c] =
                       Response(202, Cardinality(missing[c]), <<>>,
                                <<new_request[c].job_uuid>>)]
                /\ pc' = [pc EXCEPT ![c] = "notify"]
    /\ UNCHANGED <<jobs_at_restart, chunkVars, queryVars, clockVars, games_info, uuids, cleanups, terminate, rate_limited,
                   condVars, workerVars, sd_pc, cookie, view, req_ids, req_format,
                   job_row, missing, seen_cached, seen_queued, new_request,
                   new_queue>>

\* finalize_request -> notify(): the unlocked read of self.rate_limited
NotifyRead(c) ==
    /\ pc[c] = "notify"
    /\ pc' = [pc EXCEPT ![c] =
          IF NotifyPasses(FALSE, rate_limited) THEN "notify_all" ELSE "done"]
    /\ UNCHANGED <<jobs_at_restart, chunkVars, queryVars, clockVars, storeVars, uuids, cleanups, terminate, rate_limited,
                   condVars, workerVars, sd_pc, cookie, view, req_ids, req_format,
                   job_row, missing, seen_cached, seen_queued, new_request,
                   new_queue, resp>>

\* notify(): condition.acquire(); notify_all(); condition.release()
NotifyWake(c) ==
    /\ pc[c] = "notify_all"
    /\ cond_owner = "none"
    /\ notified' = NotifyAll("request")
    /\ pc' = [pc EXCEPT ![c] = "done"]
    /\ UNCHANGED <<jobs_at_restart, chunkVars, queryVars, clockVars, storeVars, uuids, cleanups, terminate, rate_limited,
                   cond_owner, waiting, wait_timeout, wait_rl, workerVars, sd_pc,
                   cookie, view, req_ids, req_format, job_row, missing, seen_cached,
                   seen_queued, new_request, new_queue, resp>>

\* finalize_extended_export: games_info = {row.appid: row ...}, then one table
\* row per profile row; a profile row without a GameInfo raises KeyError
finalize_extended_export(info, requested_ids) ==
    LET rows == in_query_chunked(info, "games_info", "GameInfo", requested_ids,
                                 SQLITE_MAX_VARIABLE_NUMBER)
        known == {rows[i].appid : i \in 1..Len(rows)}
        \* a dict keeps the last row of a key
        lookup(a) == rows[CHOOSE i \in 1..Len(rows) :
                        /\ rows[i].appid = a
                        /\ \A j \in 1..Len(rows) : rows[j].appid = a => j <= i]
    IN  IF Range(requested_ids) \subseteq known
        THEN [raised |-> FALSE,
              value |-> [i \in 1..Len(requested_ids) |->
                           [appid |-> requested_ids[i],
                            unavailable |-> lookup(requested_ids[i]).unavailable]]]
        ELSE [raised |-> TRUE, value |-> <<>>]

\* check_extended_export deletes the job row, if the request came with one,
\* and commits; then finalize_extended_export and send_exported_file
Finalize(c) ==
    /\ pc[c] = "finalize"
    /\ requests_queue' = IF job_row[c] # NoCookie
                         THEN {r \in requests_queue : r.job_uuid # job_row[c]}
                         ELSE requests_queue
    /\ LET t == finalize_extended_export(games_info, req_ids[c])
       IN  IF t.raised
           THEN Respond(c, Response(500, 0, <<>>, <<>>))
           ELSE \* send_exported_file: flask.g.clear_job_cookie = True
                Respond(c, Response(200, 0, t.value, <<NoCookie>>))
    /\ UNCHANGED <<jobs_at_restart, chunkVars, queryVars, clockVars, games_info, games_queue, uuids, cleanups, terminate,
                   rate_limited, condVars, workerVars, sd_pc, cookie, view, req_ids,
                   req_format, job_row, missing, seen_cached, seen_queued,
                   new_request, new_queue>>

\* the response reaches the client, which applies its Set-Cookie; the request
\* context (flask.g, the scoped session) is torn down
Deliver(c) ==
    /\ pc[c] = "done"
    /\ cookie' = [cookie EXCEPT ![c] =
          IF resp[c].set_cookie = <<>> THEN cookie[c] ELSE resp[c].set_cookie[1]]
    /\ pc' = [pc EXCEPT ![c] = "idle"]
    /\ view' = [view EXCEPT ![c] = "submit"]
    /\ req_ids' = [req_ids EXCEPT ![c] = <<>>]
    /\ req_format' = [req_format EXCEPT ![c] = "csv"]
    /\ job_row' = [job_row EXCEPT ![c] = NoCookie]
    /\ missing' = [missing EXCEPT ![c] = {}]
    /\ seen_cached' = [seen_cached EXCEPT ![c] = {}]
    /\ seen_queued' = [seen_queued EXCEPT ![c] = {}]
    /\ new_request' = [new_request EXCEPT ![c] = NoRequest]
    /\ new_queue' = [new_queue EXCEPT ![c] = {}]
    /\ resp' = [resp EXCEPT ![c] = NoResponse]
    /\ UNCHANGED <<jobs_at_restart, chunkVars, queryVars, clockVars, storeVars, uuids, cleanups, terminate, rate_limited,
                   condVars, workerVars, sd_pc>>

(* ---------------------------- the specification ------------------------- *)
(* ---------------------------- the chunked lookup ------------------------ *)
\* the tables in_query_chunked is called on: rows with distinct primary keys
ChunkTables ==
    {t \in UNION {[1..n -> Ids] : n \in 0..MaxId} :
        \A i, j \in 1..Len(t) : t[i] = t[j] => i = j}
\* the lists it is called with
ChunkLists == UNION {[1..n -> Ids] : n \in 0..MaxChunkLen}

\* a call of in_query_chunked(db_session, query_target, GameInfo.appid,
\* in_value, batch_size): query_return = []
Chunk_Call ==
    /\ c_pc = "idle"
    /\ \E t \in ChunkTables, l \in ChunkLists, b \in 1..MaxBatchSize,
          target \in {"appid", "GameInfo"} :
         /\ c_table' = [i \in 1..Len(t) |-> [appid |-> t[i], unavailable |-> FALSE]]
         /\ c_target' = target
         /\ c_arg' = l
         /\ c_in_value' = l
         /\ c_batch_size' = b
    /\ c_return' = <<>>
    /\ c_queries' = <<>>
    /\ c_pc' = "loop"
    /\ UNCHANGED <<jobs_at_restart, queryVars, clockVars, storeVars, uuids, cleanups, terminate,
                   rate_limited, condVars, workerVars, sd_pc, clientVars>>

\* `while in_value:` one pass of the body, or the return
Chunk_Step ==
    /\ c_pc = "loop"
    /\ IF c_in_value # <<>>
       THEN LET batch == ChunkBatch(c_in_value, c_batch_size)
            IN  /\ c_return' = c_return \o SelectGameInfoIn(c_table, c_target, batch)
                /\ c_queries' = Append(c_queries, Len(batch))
                /\ c_in_value' = ChunkRest(c_in_value, c_batch_size)
                /\ UNCHANGED c_pc
       ELSE /\ c_pc' = "done"
            /\ UNCHANGED <<c_in_value, c_return, c_queries>>
    /\ UNCHANGED <<c_table, c_target, c_arg, c_batch_size, jobs_at_restart, queryVars, clockVars,
                   storeVars, uuids, cleanups, terminate, rate_limited, condVars,
                   workerVars, sd_pc, clientVars>>

\* the caller has query_return
Chunk_End ==
    /\ c_pc = "done"
    /\ c_pc' = "idle"
    /\ c_table' = <<>>
    /\ c_target' = "appid"
    /\ c_arg' = <<>>
    /\ c_batch_size' = 1
    /\ c_in_value' = <<>>
    /\ c_return' = <<>>
    /\ c_queries' = <<>>
    /\ UNCHANGED <<jobs_at_restart, queryVars, clockVars, storeVars, uuids, cleanups, terminate,
                   rate_limited, condVars, workerVars, sd_pc, clientVars>>

(* --------------------------- the metadata client ------------------------ *)
\* what requests_session.send and raise_for_status can meet
SendOutcomes == {"HTTP200", "HTTP404", "HTTP418", "HTTP429", "HTTP500", "HTTP502",
                 "HTTP503", "Timeout", "ConnectionError", "OtherException"}
HTTPErrors == {"HTTP404", "HTTP418", "HTTP429", "HTTP500", "HTTP502", "HTTP503"}
\* response.status_code
HTTPStatus(outcome) ==
    CASE outcome = "HTTP200" -> 200
      [] outcome = "HTTP404" -> 404
      [] outcome = "HTTP418" -> 418
      [] outcome = "HTTP429" -> 429
      [] outcome = "HTTP500" -> 500
      [] outcome = "HTTP502" -> 502
      [] outcome = "HTTP503" -> 503
      [] OTHER -> 0
KNOWN_API_RESPONSES == {200, 400, 401, 403, 404, 405, 429, 500, 503}

\* urlparse(prepared_query.url).netloc of API_STORE_URL and of API_GAMES_URL
Hosts == {"store.steampowered.com", "api.steampowered.com"}
\* min_delay: 1.5 s in query_store, 0 in query_profile, in half seconds
STORE_MIN_DELAY == 3
PROFILE_MIN_DELAY == 0
MinDelays == {PROFILE_MIN_DELAY, STORE_MIN_DELAY}

Max(a, b) == IF a > b THEN a ELSE b

\* query() with one last-access time for all hosts
RequiredDelayAnyHost(access, host, min_delay, t) ==
    LET last == CHOOSE x \in {access[h] : h \in DOMAIN access} :
                    \A h \in DOMAIN access : access[h] <= x
    IN  Max(0, last + min_delay - t)

\* max(0, self.access_times.get(netloc, .0) + min_delay - time.time())
RequiredDelay(access, host, min_delay, t) ==
    Max(0, access[host] + min_delay - t)

\* query() where a client error is retried like a server error
ReraisesOnlyUnknown(outcome, retry_count, max_retries) ==
    CASE outcome \in HTTPErrors ->
            \/ HTTPStatus(outcome) \notin KNOWN_API_RESPONSES
            \/ retry_count >= max_retries
      [] outcome = "Timeout" -> retry_count >= max_retries
      [] OTHER -> TRUE

\* exp_delay = [2**x for x in range(max_retries)]
exp_delay(max_retries) == [x \in 1..max_retries |-> 2 ^ (x - 1)]

\* query() where a connection failure is handled like a timeout
ReraisesRetried(outcome, retry_count, max_retries) ==
    CASE outcome \in HTTPErrors ->
            \/ HTTPStatus(outcome) \notin KNOWN_API_RESPONSES
            \/ HTTPStatus(outcome) \in 400..499
            \/ retry_count >= max_retries
      [] outcome \in {"Timeout", "ConnectionError"} -> retry_count >= max_retries
      [] OTHER -> TRUE

\* query() with `>` for `>=` in its tests of retry_count
ReraisesOffByOne(outcome, retry_count, max_retries) ==
    CASE outcome \in HTTPErrors ->
            \/ HTTPStatus(outcome) \notin KNOWN_API_RESPONSES
            \/ HTTPStatus(outcome) \in 400..499
            \/ retry_count > max_retries
      [] outcome = "Timeout" -> retry_count > max_retries
      [] OTHER -> TRUE

\* the except clauses of query(): TRUE if the exception is raised to the caller
Reraises(outcome, retry_count, max_retries) ==
    CASE outcome \in HTTPErrors ->
            \/ HTTPStatus(outcome) \notin KNOWN_API_RESPONSES
            \/ HTTPStatus(outcome) \in 400..499
            \/ retry_count >= max_retries
      [] outcome = "Timeout" -> retry_count >= max_retries
      [] OTHER -> TRUE   \* ConnectionError, Exception

\* query_store calls query with max_retries=2, query_profile with max_retries=0
Q_Begin ==
    /\ q_pc = "idle"
    /\ Len(q_sends) < MaxSends
    /\ \E m \in 0..MaxRetries, h \in Hosts, d \in MinDelays :
         /\ q_max_retries' = m
         /\ q_host' = h
         /\ q_min_delay' = d
    /\ q_retry_count' = 0
    /\ q_log' = <<>>
    /\ q_delay' = 0
    /\ q_result' = "none"
    /\ q_pc' = "throttle"
    /\ UNCHANGED <<q_now, access_times, q_sends, jobs_at_restart, chunkVars, clockVars, storeVars, uuids, cleanups, terminate, rate_limited,
                   condVars, workerVars, sd_pc, clientVars>>

\* time.sleep(max(0, access_times.get(netloc, .0) + min_delay - time.time()))
Q_Throttle ==
    /\ q_pc = "throttle"
    /\ q_now' = q_now + RequiredDelay(access_times, q_host, q_min_delay, q_now)
    /\ q_pc' = "send"
    /\ UNCHANGED <<q_max_retries, q_retry_count, q_log, q_delay, q_result, q_host,
                   q_min_delay, access_times, q_sends, jobs_at_restart, chunkVars, clockVars, storeVars, uuids,
                   cleanups, terminate, rate_limited, condVars, workerVars, sd_pc,
                   clientVars>>

\* the rest of the try block: access_times[netloc] = time.time(), send,
\* raise_for_status, then the except clause of what was raised and the retry
\* bookkeeping after it
Q_Send ==
    /\ q_pc = "send"
    /\ Len(q_sends) < MaxSends
    /\ access_times' = [access_times EXCEPT ![q_host] = q_now]
    /\ q_sends' = Append(q_sends, [host |-> q_host, at |-> q_now,
                                   min_delay |-> q_min_delay])
    /\ \E outcome \in SendOutcomes :
         /\ q_log' = Append(q_log, outcome)
         /\ IF outcome = "HTTP200"
            THEN /\ q_result' = outcome
                 /\ q_pc' = "returned"
                 /\ UNCHANGED <<q_retry_count, q_delay>>
            ELSE IF Reraises(outcome, q_retry_count, q_max_retries)
            THEN /\ q_result' = outcome
                 /\ q_pc' = "raised"
                 /\ UNCHANGED <<q_retry_count, q_delay>>
            ELSE /\ q_retry_count' = q_retry_count + 1
                 /\ IF q_retry_count + 1 \in DOMAIN exp_delay(q_max_retries)
                    THEN /\ q_delay' = exp_delay(q_max_retries)[q_retry_count + 1]
                         /\ q_pc' = "sleep"
                         /\ UNCHANGED q_result
                    ELSE \* exp_delay[retry_count-1] out of range
                         /\ q_result' = "IndexError"
                         /\ q_pc' = "raised"
                         /\ UNCHANGED q_delay
    /\ UNCHANGED <<q_max_retries, q_host, q_min_delay, q_now, jobs_at_restart, chunkVars, clockVars, storeVars,
                   uuids, cleanups, terminate, rate_limited, condVars, workerVars,
                   sd_pc, clientVars>>

\* time.sleep(delay), delay in seconds, and the while loop goes round
Q_Retry ==
    /\ q_pc = "sleep"
    /\ q_now' = q_now + 2 * q_delay
    /\ q_pc' = "throttle"
    /\ UNCHANGED <<q_max_retries, q_retry_count, q_log, q_delay, q_result, q_host,
                   q_min_delay, access_times, q_sends, jobs_at_restart, chunkVars, clockVars,
                   storeVars, uuids, cleanups, terminate, rate_limited, condVars,
                   workerVars, sd_pc, clientVars>>

\* the caller has the response or the exception; the next call can start
Q_End ==
    /\ q_pc \in {"returned", "raised"}
    /\ q_pc' = "idle"
    /\ q_max_retries' = 0
    /\ q_retry_count' = 0
    /\ q_log' = <<>>
    /\ q_delay' = 0
    /\ q_result' = "none"
    /\ UNCHANGED <<q_host, q_min_delay, q_now, access_times, q_sends, jobs_at_restart, chunkVars, clockVars,
                   storeVars, uuids, cleanups, terminate, rate_limited, condVars,
                   workerVars, sd_pc, clientVars>>

\* time passes while the session's thread does something else
Q_Elapse ==
    /\ q_now < STORE_MIN_DELAY + MaxElapse
    /\ q_now' = q_now + 1
    /\ UNCHANGED <<q_pc, q_max_retries, q_retry_count, q_log, q_delay, q_result,
                   q_host, q_min_delay, access_times, q_sends, jobs_at_restart, chunkVars, clockVars, storeVars,
                   uuids, cleanups, terminate, rate_limited, condVars, workerVars,
                   sd_pc, clientVars>>

Init ==
    /\ now = 0
    /\ ticks = 0
    /\ games_info = <<>>
    /\ games_queue = {}
    /\ requests_queue = {}
    /\ uuids = 0
    /\ cleanups = 0
    /\ terminate = FALSE
    /\ rate_limited = FALSE
    /\ cond_owner = "none"
    /\ waiting = FALSE
    /\ notified = "none"
    /\ wait_timeout = 0
    /\ wait_rl = FALSE
    /\ w_pc = "loop"
    /\ w_batch = <<>>
    /\ w_i = 0
    /\ w_result = "none"
    /\ w_after = "while"
    /\ sd_pc = "join"
    /\ cookie = [c \in Clients |-> NoCookie]
    /\ pc = [c \in Clients |-> "idle"]
    /\ view = [c \in Clients |-> "submit"]
    /\ req_ids = [c \in Clients |-> <<>>]
    /\ req_format = [c \in Clients |-> "csv"]
    /\ job_row = [c \in Clients |-> NoCookie]
    /\ missing = [c \in Clients |-> {}]
    /\ seen_cached = [c \in Clients |-> {}]
    /\ seen_queued = [c \in Clients |-> {}]
    /\ new_request = [c \in Clients |-> NoRequest]
    /\ new_queue = [c \in Clients |-> {}]
    /\ resp = [c \in Clients |-> NoResponse]
    /\ q_pc = "idle"
    /\ q_max_retries = 0
    /\ q_retry_count = 0
    /\ q_log = <<>>
    /\ q_delay = 0
    /\ q_result = "none"
    /\ q_host = "store.steampowered.com"
    /\ q_min_delay = 0
    \* time.time() is far beyond any min_delay when a session starts
    /\ q_now = STORE_MIN_DELAY
    /\ access_times = [h \in Hosts |-> 0]
    /\ q_sends = <<>>
    /\ c_pc = "idle"
    /\ c_table = <<>>
    /\ c_target = "appid"
    /\ c_arg = <<>>
    /\ c_batch_size = 1
    /\ c_in_value = <<>>
    /\ c_return = <<>>
    /\ c_queries = <<>>
    /\ jobs_at_restart = {}

WorkerWith(results) ==
    \/ W_CheckTerminate
    \/ W_ReadQueue
    \/ W_ItemTerminate
    \/ W_ItemKnown
    \/ W_FetchFrom(results)
    \/ W_Store
    \/ W_Except
    \/ W_WaitEnter
    \/ W_WakeUp
    \/ W_WaitExit

Request(c) ==
    \/ DropCookie(c)
    \/ BeginPoll(c)
    \/ BeginSubmit(c)
    \/ CheckMissing(c)
    \/ CheckQueue(c)
    \/ Commit(c)
    \/ NotifyRead(c)
    \/ NotifyWake(c)
    \/ Finalize(c)
    \/ Deliver(c)

\* one web client, the worker with every outcome of a fetch, the shutdown
\* notifier and the clock
Next ==
    \/ WorkerWith(StoreResults)
    \/ Request(1)
    \/ SD_Terminate
    \/ SD_Notify
    \/ Tick

Spec == Init /\ [][Next]_vars

\* concurrent web clients and the worker
NextConc ==
    \/ WorkerWith({"ok", "Timeout", "KeyError"})
    \/ \E c \in Clients : Request(c)

ConcSpec == Init /\ [][NextConc]_vars

\* one web client, the worker, the daily maintenance and a clock that can pass
\* the retention window
NextMaint ==
    \/ WorkerWith({"unavailable", "Timeout"})
    \/ Request(1)
    \/ Cleanup
    \/ TickLong

MaintSpec == Init /\ [][NextMaint]_vars

\* the worker, one web client and the shutdown notifier; the worker and the
\* notifier are threads the scheduler runs whenever they can take a step
NextStop ==
    \/ WorkerWith({"ok", "HTTPError429", "KeyError"})
    \/ Request(1)
    \/ SD_Terminate
    \/ SD_Notify

StopSpec ==
    /\ Init /\ [][NextStop]_vars
    /\ WF_vars(WorkerWith({"ok", "HTTPError429", "KeyError"}))
    /\ WF_vars(SD_Terminate \/ SD_Notify)

\* the worker alone, on a queue longer than one pass reads, every fetch
\* answered
NextBatch ==
    \/ FillQueue
    \/ W_CheckTerminate
    \/ W_ReadQueue
    \/ W_ItemTerminate
    \/ W_ItemKnown
    \/ W_FetchFrom({"ok"})
    \/ W_Store
    \/ W_WaitEnter

BatchSpec == Init /\ [][NextBatch]_vars

\* calls of db.in_query_chunked, one after the other
NextChunk ==
    \/ Chunk_Call
    \/ Chunk_Step
    \/ Chunk_End

ChunkSpec == Init /\ [][NextChunk]_vars

\* calls of APISession.query, one after the other
NextQuery ==
    \/ Q_Begin
    \/ Q_Throttle
    \/ Q_Send
    \/ Q_Retry
    \/ Q_End
    \/ Q_Elapse

QuerySpec == Init /\ [][NextQuery]_vars

\* the metadata source answers every fetch, the client polls with its token
\* and never drops it, nothing purges jobs, nothing shuts the worker down
NextFair ==
    \/ W_CheckTerminate
    \/ W_ReadQueue
    \/ W_ItemTerminate
    \/ W_ItemKnown
    \/ W_FetchFrom(GameInfoResults)
    \/ W_Store
    \/ W_WaitEnter
    \/ W_WakeUp
    \/ W_WaitExit
    \/ BeginPoll(1)
    \/ BeginSubmit(1)
    \/ CheckMissing(1)
    \/ CheckQueue(1)
    \/ Commit(1)
    \/ NotifyRead(1)
    \/ NotifyWake(1)
    \/ Finalize(1)
    \/ Deliver(1)

FairWorker ==
    WF_vars(W_CheckTerminate \/ W_ReadQueue \/ W_ItemTerminate \/ W_ItemKnown
            \/ W_FetchFrom(GameInfoResults) \/ W_Store \/ W_WaitEnter \/ W_WakeUp
            \/ W_WaitExit)
FairClient ==
    WF_vars(BeginPoll(1) \/ CheckMissing(1) \/ CheckQueue(1) \/ Commit(1)
            \/ NotifyRead(1) \/ NotifyWake(1) \/ Finalize(1) \/ Deliver(1))

FairSpec == Init /\ [][NextFair]_vars /\ FairWorker /\ FairClient

\* the worker alone, on a filled queue; the metadata source fails every fetch
\* of the poisoned identifiers and answers every other; nothing shuts the
\* worker down, and its thread runs whenever it can take a step
NextPoison ==
    \/ FillQueue
    \/ W_CheckTerminate
    \/ W_ReadQueue
    \/ W_ItemTerminate
    \/ W_ItemKnown
    \/ W_FetchPoisoned
    \/ W_Store
    \/ W_Except
    \/ W_WaitEnter
    \/ W_WakeUp
    \/ W_WaitExit

FairPoisonedWorker ==
    WF_vars(W_CheckTerminate \/ W_ReadQueue \/ W_ItemTerminate \/ W_ItemKnown
            \/ W_FetchPoisoned \/ W_Store \/ W_Except \/ W_WaitEnter \/ W_WakeUp
            \/ W_WaitExit)

PoisonSpec == Init /\ [][NextPoison]_vars /\ FairPoisonedWorker

(* --------------------------- a process restart -------------------------- *)
\* The process dies and create_app() runs again on the same database file,
\* with entries left in games_queue and jobs left in requests_queue: the
\* tables and the clients' cookies survive, the requests in flight are lost
\* with their uncommitted sessions, a new GameInfoFetcher enters run() with a
\* new condition and rate_limited False.
Restart ==
    /\ jobs_at_restart = {}
    /\ games_queue # {}
    /\ requests_queue # {}
    /\ jobs_at_restart' = JobTokens(requests_queue)
    /\ terminate' = FALSE
    /\ rate_limited' = FALSE
    /\ cond_owner' = "none"
    /\ waiting' = FALSE
    /\ notified' = "none"
    /\ wait_timeout' = 0
    /\ wait_rl' = FALSE
    /\ w_pc' = "loop"
    /\ w_batch' = <<>>
    /\ w_i' = 0
    /\ w_result' = "none"
    /\ w_after' = "while"
    /\ sd_pc' = "join"
    /\ pc' = [c \in Clients |-> "idle"]
    /\ view' = [c \in Clients |-> "submit"]
    /\ req_ids' = [c \in Clients |-> <<>>]
    /\ req_format' = [c \in Clients |-> "csv"]
    /\ job_row' = [c \in Clients |-> NoCookie]
    /\ missing' = [c \in Clients |-> {}]
    /\ seen_cached' = [c \in Clients |-> {}]
    /\ seen_queued' = [c \in Clients |-> {}]
    /\ new_request' = [c \in Clients |-> NoRequest]
    /\ new_queue' = [c \in Clients |-> {}]
    /\ resp' = [c \in Clients |-> NoResponse]
    /\ UNCHANGED <<chunkVars, queryVars, clockVars, storeVars, uuids, cleanups,
                   cookie>>

\* the fair system of NextFair with one restart of the process
NextRestart ==
    \/ NextFair
    \/ Restart

RestartSpec == Init /\ [][NextRestart]_vars /\ FairWorker /\ FairClient

TypeOK ==
    /\ w_pc \in {"loop", "read_queue", "item", "item_known", "fetch", "store",
                  "except", "wait_enter", "waiting", "wait_exit", "exited", "crashed"}
    /\ \A c \in Clients : pc[c] \in {"idle", "check", "check_queue", "commit",
                                       "notify", "notify_all", "finalize", "done"}

(* -------------------------------- claims -------------------------------- *)
\* the request of client c is finished and its response is ready
Done(c) == pc[c] = "done"
\* the requested identifiers of the request of client c, as a set
Requested(c) == Range(req_ids[c])

\* C1 (as claimed): a submit that returned a pending result with token t is
\* followed, under fair scheduling and with every fetch answered, by a poll of
\* t that returns the finalized table.
C1_PollEventuallyFinalizes ==
    \A t \in 1..MaxJobs :
        (Done(1) /\ view[1] = "submit" /\ resp[1].status = 202
                 /\ resp[1].set_cookie = <<t>>)
        ~> (Done(1) /\ view[1] = "poll" /\ job_row[1] = t /\ resp[1].status = 200)

\* C2 (as claimed): a poll that finds the job complete (every identifier of the
\* snapshot cached) returns the combined table, one row per input identifier,
\* the i-th row carrying the i-th identifier.
C2_TableMatchesInput ==
    \A c \in Clients :
        (Done(c) /\ view[c] = "poll" /\ job_row[c] # NoCookie
                 /\ seen_cached[c] = Requested(c))
        => /\ resp[c].status = 200
           /\ Len(resp[c].table) = Len(req_ids[c])
           /\ \A i \in 1..Len(req_ids[c]) : resp[c].table[i].appid = req_ids[c][i]

\* C3 (as claimed): a submit whose identifiers all have a cache row creates no
\* Job row and no QueueEntry row and returns the export.
C3_AllCachedIsSynchronous ==
    \A c \in Clients :
        (Done(c) /\ view[c] = "submit" /\ req_ids[c] # <<>>
                 /\ seen_cached[c] = Requested(c))
        => /\ resp[c].status = 200
           /\ new_request[c] = NoRequest
           /\ new_queue[c] = {}

\* C4 (as claimed): once the job's entries are drained, the poll that sees it
\* is the finalizing one: it returns the table, deletes the Job row and clears
\* the token, so that every later poll of the token is answered "invalid".
C4_DrainedPollFinalizesOnce ==
    \A c \in Clients :
        (Done(c) /\ view[c] = "poll" /\ job_row[c] # NoCookie
                 /\ seen_cached[c] = Requested(c)
                 /\ \A q \in games_queue : q.job_uuid # job_row[c])
        => /\ resp[c].status = 200
           /\ resp[c].set_cookie = <<NoCookie>>
           /\ job_row[c] \notin JobTokens(requests_queue)

\* C5: the cache never holds two rows for one identifier, and holds no more
\* rows than there are distinct identifiers in the requests made.
C5_OneCacheRowPerId ==
    /\ \A i, j \in 1..Len(games_info) :
          games_info[i].appid = games_info[j].appid => i = j
    /\ Len(games_info) <= Cardinality(UNION {Range(r.games_json) : r \in requests_queue})

\* C5's case: two submits in flight at once ask for an identifier that is
\* cached by now, and one of them has queued it again
C5_Witness ==
    \E c, d \in Clients, a \in Ids :
        /\ c # d
        /\ view[c] = "submit" /\ pc[c] \notin {"idle", "done"}
        /\ view[d] = "submit" /\ pc[d] \notin {"idle", "done"}
        /\ a \in Requested(c) \cap Requested(d)
        /\ a \in CachedIds(games_info)
        /\ a \in QueuedIds(games_queue)

\* C6: a run of cleanup deletes exactly the jobs whose timestamp is <= now
\* minus the retention window, touches nothing else, and leaves an empty store
\* empty.
C6_CleanupDeletesExpired ==
    [][cleanups' # cleanups =>
         LET cutoff == now - COOKIE_MAX_AGE
         IN  /\ \A r \in requests_queue :
                   /\ r.timestamp <= cutoff => r \notin requests_queue'
                   /\ r.timestamp > cutoff => r \in requests_queue'
             /\ requests_queue' \subseteq requests_queue
             /\ requests_queue = {} => requests_queue' = {}
             /\ games_info' = games_info
             /\ games_queue' = games_queue]_vars

\* C6's case: cleanup ran, a job was purged (its queue entry is orphaned) and
\* a younger job was kept
C6_Witness ==
    /\ cleanups > 0
    /\ \E q \in games_queue : q.job_uuid \notin JobTokens(requests_queue)
    /\ \E r \in requests_queue : r.timestamp > now - COOKIE_MAX_AGE

\* C7 (as claimed): a submit of n identifiers of which k < n are cached and
\* none of the others is queued creates one QueueEntry per uncached identifier,
\* each with the new job's token, and the Job row.
C7_QueuesExactlyTheUncached ==
    \A c \in Clients :
        (Done(c) /\ view[c] = "submit" /\ seen_cached[c] # Requested(c)
                 /\ seen_queued[c] = {})
        => /\ resp[c].status = 202
           /\ new_request[c].job_uuid # NoCookie
           /\ {q.appid : q \in new_queue[c]} = Requested(c) \ seen_cached[c]
           /\ \A q \in new_queue[c] : q.job_uuid = new_request[c].job_uuid

QueueTimestamp(queue, a) == (CHOOSE q \in queue : q.appid = a).timestamp

\* C9 (as claimed): when the fetch of a queued identifier fails with a rate
\* limit (HTTP 429), the handler keeps the entry, strictly increases its
\* timestamp and creates no cache row.
C9_RateLimitBumpsTimestamp ==
    [][(w_pc = "except" /\ w_result = "HTTPError429" /\ w_pc' # w_pc) =>
         /\ queue_item \in QueuedIds(games_queue')
         /\ queue_item \notin CachedIds(games_info')
         /\ QueueTimestamp(games_queue', queue_item)
              > QueueTimestamp(games_queue, queue_item)]_vars

\* C10: the worker never dies of a fetch: it is never left by an exception,
\* and it has returned only if the termination flag is set.
C10_WorkerSurvivesFailures ==
    /\ w_pc # "crashed"
    /\ w_pc = "exited" => terminate

\* C11 (as claimed): once the shutdown notifier has set the termination flag
\* and issued its forced wake, the worker eventually exits, whatever it was
\* doing and however the notifier's steps fell between the worker's.
C11_ShutdownEventuallyExits ==
    (sd_pc = "done") ~> (w_pc = "exited")

\* C12 (as claimed): a notify() of the request path never releases the worker
\* from a backoff wait; only the forced notify does.
C12_BackoffIgnoresNotify ==
    ~(w_pc = "waiting" /\ wait_rl /\ notified = "request")

\* C13 (as claimed): two concurrent submits that both found an identifier in
\* neither the cache nor the queue, and both built a queue entry for it under
\* their own token, both end with a pending result.
C13_RacingSubmitsBothPend ==
    \A c, d \in Clients :
        (/\ c # d
         /\ Done(c) /\ view[c] = "submit"
         /\ Done(d) /\ view[d] = "submit"
         /\ \E a \in Ids : /\ a \in {q.appid : q \in new_queue[c]}
                          /\ a \in {q.appid : q \in new_queue[d]})
        => /\ resp[c].status = 202
           /\ resp[d].status = 202

\* C15 (as claimed): a poll whose token has no Job row is told that the token
\* is invalid and to drop it; a poll whose Job row exists and still misses
\* identifiers keeps its token and is told "pending".
C15_PollOfUnknownOrPendingToken ==
    \A c \in Clients :
        (Done(c) /\ view[c] = "poll")
        => IF job_row[c] = NoCookie
           THEN /\ resp[c].status = 302
                /\ resp[c].set_cookie = <<NoCookie>>
           ELSE seen_cached[c] # Requested(c)
                => /\ resp[c].status = 202
                   /\ resp[c].set_cookie = <<>>

\* C16: a submit whose format is none of ods, xls, xlsx, csv is answered 400
\* in its first step, before the profile is fetched: no row of any table is
\* written, no job token is drawn and the worker is not signalled; no Job row
\* ever carries such a format.
C16_BadFormatRejectedFirst ==
    [][/\ \A c \in Clients :
            (/\ pc[c] = "idle" /\ pc'[c] # "idle" /\ view'[c] = "submit"
             /\ req_format'[c] \notin {"ods", "xls", "xlsx", "csv"})
            => /\ pc'[c] = "done"
               /\ resp'[c].status = 400
               /\ resp'[c].set_cookie = <<>>
               /\ UNCHANGED <<storeVars, uuids, notified>>
       /\ \A r \in requests_queue' :
            r.export_format \in {"ods", "xls", "xlsx", "csv"}]_vars

\* C16's case: a submit with an unknown format was answered while the store
\* holds a job and its queue entries
C16_Witness ==
    \E c \in Clients :
        /\ Done(c) /\ view[c] = "submit"
        /\ req_format[c] = "not a format"
        /\ resp[c].status = 400
        /\ requests_queue # {} /\ games_queue # {}

\* C17: a fetch that reports success = false leaves, in one step, a cache row
\* with unavailable = TRUE and no queue entry for the identifier; cache rows
\* are never changed or removed, and the worker never fetches an identifier
\* that has a cache row.
C17_UnavailableIsCached ==
    [][/\ (w_pc = "store" /\ w_result = "unavailable" /\ w_pc' # "store")
          => /\ \E i \in 1..Len(games_info') :
                   games_info'[i] = [appid |-> queue_item, unavailable |-> TRUE]
             /\ queue_item \notin QueuedIds(games_queue')
             /\ w_pc' # "except"
       /\ w_pc' = "fetch" => w_batch'[w_i'] \notin CachedIds(games_info')
       /\ \A i \in 1..Len(games_info) :
             i <= Len(games_info') /\ games_info'[i] = games_info[i]]_vars

\* C17's case: the worker meets a queue entry for an identifier that is cached
\* as unavailable
C17_Witness ==
    /\ w_pc = "item_known"
    /\ \E i \in 1..Len(games_info) :
          games_info[i] = [appid |-> queue_item, unavailable |-> TRUE]

C19_QueryBounded ==
    /\ Len(q_log) <= q_max_retries + 1
    /\ q_result # "IndexError"
    /\ q_pc \in {"throttle", "send", "sleep"} => Len(q_log) <= q_max_retries
    /\ q_pc = "sleep" => q_retry_count \in 1..q_max_retries
    /\ q_pc = "returned" => q_result = "HTTP200" /\ q_log[Len(q_log)] = "HTTP200"
    /\ q_pc = "raised" => q_result # "HTTP200" /\ q_log[Len(q_log)] = q_result
    /\ (q_pc \in {"returned", "raised"} /\ q_max_retries = 0) => Len(q_log) = 1

\* C19's case: every send of a call with retries failed and the last failure
\* was raised
C19_Witness ==
    /\ q_pc = "raised"
    /\ q_max_retries > 0
    /\ Len(q_log) = q_max_retries + 1

\* C20 (as claimed): a timeout or a connection failure reaches the caller only
\* after the call has used up its retries.
C20_TransientErrorsRetried ==
    (q_pc = "raised" /\ q_result \in {"Timeout", "ConnectionError"})
    => Len(q_log) = q_max_retries + 1

\* C20 (amended): a send that times out is followed by a retry, after a delay
\* of 2^(k-1) before the k-th retry, while retries are left, and is raised to
\* the caller otherwise; a send that fails to connect is raised at once.
C20_TimeoutRetriedConnectionRaised ==
    [][Len(q_log') = Len(q_log) + 1 =>
         LET outcome == q_log'[Len(q_log')]
         IN  /\ outcome = "Timeout" =>
                  IF q_retry_count < q_max_retries
                  THEN /\ q_pc' = "sleep"
                       /\ q_retry_count' = q_retry_count + 1
                       /\ q_delay' = 2 ^ q_retry_count
                  ELSE /\ q_pc' = "raised"
                       /\ q_result' = "Timeout"
             /\ outcome = "ConnectionError" =>
                  /\ q_pc' = "raised"
                  /\ q_result' = "ConnectionError"]_vars

\* C20's case: a call with retries left retried a timeout and then raised a
\* connection failure without using its last retry
C20_Witness ==
    /\ q_pc = "raised"
    /\ q_max_retries = 2
    /\ q_log = <<"Timeout", "ConnectionError">>

\* C21: a send answered with a 4xx status (429 included) or with a status
\* outside the known list is raised to the caller by that send, never sent
\* again; a send answered 500 or 503 is followed by a retry while retries are
\* left and raised once they are used up.
C21_ClientErrorsNeverRetried ==
    [][Len(q_log') = Len(q_log) + 1 =>
         LET outcome == q_log'[Len(q_log')]
         IN  /\ outcome \in {"HTTP404", "HTTP418", "HTTP429", "HTTP502"} =>
                  /\ q_pc' = "raised"
                  /\ q_result' = outcome
             /\ outcome \in {"HTTP500", "HTTP503"} =>
                  IF q_retry_count < q_max_retries
                  THEN /\ q_pc' = "sleep"
                       /\ q_retry_count' = q_retry_count + 1
                  ELSE /\ q_pc' = "raised"
                       /\ q_result' = outcome
                       /\ Len(q_log') = q_max_retries + 1]_vars

\* C21's case: a call with retries re-sent after a 500 and raised the 429 its
\* second send met, with a retry left
C21_Witness ==
    /\ q_pc = "raised"
    /\ q_max_retries = 2
    /\ q_log = <<"HTTP500", "HTTP429">>

\* the sends of the session to host h that come before its j-th send
EarlierSends(h, j) == {i \in 1..(j - 1) : q_sends[i].host = h}

\* C22: two consecutive sends of a session to one host are at least the
\* second send's min_delay apart; the throttling sleep of a call lasts no
\* longer than the last send to the call's own host requires, and does not
\* happen at all with min_delay = 0 or when the host was not sent to before.
C22_MinDelayPerHost ==
    [][/\ \A j \in 1..Len(q_sends') :
            \A i \in 1..(j - 1) :
                q_sends'[i].host = q_sends'[j].host
                => q_sends'[j].at - q_sends'[i].at >= q_sends'[j].min_delay
       /\ (q_pc = "throttle" /\ q_pc' = "send") =>
            LET prior == EarlierSends(q_host, Len(q_sends) + 1)
            IN  IF prior = {} \/ q_min_delay = 0
                THEN q_now' = q_now
                ELSE \E i \in prior :
                        /\ \A k \in prior : k <= i
                        /\ q_now' = Max(q_now, q_sends[i].at + q_min_delay)]_vars

\* C22's case: the session sent to both hosts, then slept before a second
\* send to the first host
C22_Witness ==
    /\ Len(q_sends) = 3
    /\ q_sends[1].host = q_sends[3].host
    /\ q_sends[2].host # q_sends[1].host
    /\ q_sends[2].at > q_sends[1].at
    /\ q_sends[3].min_delay = STORE_MIN_DELAY
    /\ q_sends[3].at = q_sends[1].at + STORE_MIN_DELAY

\* how many times a row occurs in a result
Occurrences(rows, r) == Cardinality({i \in 1..Len(rows) : rows[i] = r})
\* the single query `where appid in (in_value)` over the whole list
Unchunked == SelectGameInfoIn(c_table, c_target, c_arg)
\* the identifier of a returned row: the column itself, or the entity's appid
RowId(r) == IF c_target = "appid" THEN r ELSE r.appid
\* no identifier is named twice in the list
DistinctIds(l) == \A i, j \in 1..Len(l) : l[i] = l[j] => i = j

\* C23 as stated: for every identifier list and every batch size >= 1 the
\* chunked lookup issues only queries of at most batch_size parameters, ends,
\* and returns exactly the rows of the single unchunked query, each row as
\* often as that query returns it.
C23_ChunkedEqualsUnchunked ==
    /\ \A i \in 1..Len(c_queries) : c_queries[i] <= c_batch_size
    /\ c_pc = "loop" => Len(c_in_value) + Len(c_queries) <= Len(c_arg)
    /\ c_pc = "done" =>
         \A r \in Range(c_return) \cup Range(Unchunked) :
            Occurrences(c_return, r) = Occurrences(Unchunked, r)

\* C23, amended: every query has between 1 and batch_size parameters, every
\* pass of the loop shortens what is left of the list (so the lookup ends
\* after at most Len(list) queries, with nothing left), the rows returned are
\* the rows of the unchunked query, and each is returned once when no
\* identifier is repeated in the list; an identifier repeated in different
\* batches has its row returned once per batch that names it.
C23_ChunkedRowsOfUnchunked ==
    /\ \A i \in 1..Len(c_queries) : c_queries[i] \in 1..c_batch_size
    /\ c_pc = "loop" => Len(c_in_value) + Len(c_queries) <= Len(c_arg)
    /\ c_pc = "done" =>
         /\ c_in_value = <<>>
         /\ Range(c_return) = Range(Unchunked)
         /\ c_return = in_query_chunked(c_table, "games_info", c_target, c_arg,
                                        c_batch_size)
         /\ DistinctIds(c_arg) =>
              \A r \in Range(c_return) : Occurrences(c_return, r) = 1
         /\ \A r \in Range(c_return) :
              Occurrences(c_return, r) =
                Cardinality({k \in 0..Len(c_arg) :
                    \E i \in 1..Len(c_arg) :
                        /\ (i - 1) \div c_batch_size = k
                        /\ c_arg[i] = RowId(r)})
\* C23's case: a list longer than the batch size, with ids that are in the
\* table and ids that are not, has been looked up in several queries
C23_Witness ==
    /\ c_pc = "done"
    /\ Len(c_arg) > c_batch_size
    /\ Len(c_queries) > 1
    /\ c_return # <<>>
    /\ DistinctIds(c_arg)
    /\ \E i \in 1..Len(c_arg) : \A j \in 1..Len(c_table) : c_table[j].appid # c_arg[i]

\* C24: after a recoverable fetch error (rate limit or other network error)
\* the worker backs off, abandons the rest of the batch and reads a fresh
\* batch once the backoff ends: the step that leaves the backoff of a network
\* error goes to the head of `while True`, never to the next item of the old
\* batch.
C24_NetworkErrorAbandonsBatch ==
    [][(w_pc = "wait_exit" /\ wait_rl /\ w_after # "break" /\ w_pc' # w_pc)
          => (w_pc' = "loop" /\ w_batch' = <<>>)]_vars

\* a submit after the ones seen so far has begun
FurtherSubmit == view[1] = "submit" /\ pc[1] = "check"

\* C26: a queue entry committed by a submit while the worker is idle, or
\* between the worker's read of an empty queue and its entry into the idle
\* wait, is eventually processed without any further submit: under fair
\* scheduling and with every fetch answered, an identifier that is in the
\* queue is later out of it, or else a further submit has begun.
C26_NoLostWakeUp ==
    \A i \in Ids :
        (i \in QueuedIds(games_queue))
        ~> (i \notin QueuedIds(games_queue) \/ FurtherSubmit)

\* C25: queue entries whose fetch fails on every attempt never block the rest
\* of the queue for good, however many they are: under fair scheduling every
\* other queue entry, whose fetch succeeds, is eventually fetched (it has a
\* cache row) and removed.
C25_PoisonedNeverStarveOthers ==
    \A i \in (1..(QUEUE_BATCH_LIMIT + 1)) \ Poisoned :
        (i \in QueuedIds(games_queue))
        ~> (i \in CachedIds(games_info) /\ i \notin QueuedIds(games_queue))

\* C27: in every reachable state, the one left by a crash or a shutdown between
\* two worker steps included, an identifier whose queue entry the worker has
\* removed has a cache row: every step that takes an entry out of the queue
\* ends with a cache row for its identifier (insert and delete are one
\* commit), and no step takes a cache row away, so the work done earlier in a
\* batch is neither lost nor redone.
C27_RemovedEntryIsCached ==
    [][/\ \A i \in Ids :
            (i \in QueuedIds(games_queue) /\ i \notin QueuedIds(games_queue'))
            => i \in CachedIds(games_info')
       /\ \A k \in 1..Len(games_info) :
            k <= Len(games_info') /\ games_info'[k] = games_info[k]]_vars
\* C27's case: the worker stored the first item of a batch, and was shut down
\* before the next item: the first item's row is in the cache, its entry is
\* out of the queue, the next item is still queued
C27_Witness ==
    /\ w_pc = "exited"
    /\ terminate
    /\ \E i, j \in Ids :
         /\ i \in CachedIds(games_info) /\ i \notin QueuedIds(games_queue)
         /\ j \in QueuedIds(games_queue) /\ j \notin CachedIds(games_info)

\* C28: when the worker reaches a queue entry whose identifier already has a
\* cache row, it deletes that entry and commits, without calling the metadata
\* client and without changing the cache row: the step taken at such an item
\* removes the entry, leaves the cache as it is and goes to the next item or
\* to the head of the loop, never to the fetch.
C28_KnownItemDeletedWithoutFetch ==
    [][(w_pc = "item_known" /\ w_pc' # w_pc /\ GetGameInfo(games_info, queue_item))
          => /\ queue_item \notin QueuedIds(games_queue')
             /\ games_info' = games_info
             /\ w_pc' \in {"item", "loop"}
             /\ w_result' = "none"]_vars
\* C28's case: two jobs queued the same identifier, the second after the
\* worker had cached it for the first (its check for missing identifiers was
\* older), and the second entry is out of the queue again: only the step for
\* known items can have removed it
C28_Witness ==
    \E r1, r2 \in requests_queue :
        /\ r1.job_uuid # r2.job_uuid
        /\ \E i \in Range(r1.games_json) \cap Range(r2.games_json) :
             /\ i \in CachedIds(games_info)
             /\ i \notin QueuedIds(games_queue)

\* C29: on an unexpected exception during an item's fetch or store write the
\* worker rolls back the item's uncommitted changes, keeps the queue entry and
\* sets its timestamp to the current time, writes no cache row for it, waits
\* the short backoff, abandons the rest of the batch and keeps running: the
\* handler's step leaves cache and set of queued identifiers as they were,
\* stamps the entry with the clock and enters the wait with the short timeout;
\* the step that leaves that wait goes to the head of `while True` with the
\* batch dropped.
C29_UnexpectedExceptionHandled ==
    [][/\ (w_pc = "except" /\ w_pc' # w_pc /\ w_result \in OtherExceptions)
           => /\ games_info' = games_info
              /\ queue_item \notin CachedIds(games_info')
              /\ QueuedIds(games_queue') = QueuedIds(games_queue)
              /\ \A q \in games_queue' :
                    IF q.appid = queue_item THEN q.timestamp = now
                    ELSE q \in games_queue
              /\ w_pc' = "wait_enter"
              /\ wait_timeout' = ERROR_TIMEOUT
              /\ wait_rl'
       /\ (w_pc = "wait_exit" /\ w_pc' # w_pc /\ w_after = "break")
           => /\ w_pc' = "loop"
              /\ w_batch' = <<>>]_vars
\* C29's case: an item of a batch of two raised an unexpected exception a
\* second after it was queued, its entry carries the new timestamp and no
\* cache row, and the worker is back at the head of its loop
C29_Witness ==
    /\ w_pc = "loop"
    /\ w_batch = <<>>
    /\ \E q1, q2 \in games_queue :
         /\ q1.job_uuid = q2.job_uuid
         /\ q1.timestamp = now
         /\ q2.timestamp < now
         /\ q1.appid \notin CachedIds(games_info)

\* the items of the batch that the for loop has not finished with
Remaining == {k \in 1..Len(w_batch) : k >= w_i}

\* C30: each worker pass reads at most 20 queue entries, those with the oldest
\* timestamps, and processes them in non-decreasing timestamp order; no entry
\* with a newer timestamp is fetched in a pass while an older entry was left
\* out of the pass's batch. The step that reads a batch takes
\* min(20, size of the queue) entries, each no newer than any entry it leaves
\* out; while the loop is at an item, that item is no newer than the items of
\* the batch still to come, and only the item the loop is at is fetched.
C30_OldestFirstBatches ==
    [][/\ (w_pc = "read_queue" /\ w_pc' = "item")
           => /\ Len(w_batch') = Min(QUEUE_BATCH_LIMIT, Cardinality(games_queue))
              /\ Len(w_batch') <= 20
              /\ w_i' = 1
              /\ \A k \in 1..Len(w_batch') :
                    /\ w_batch'[k] \in QueuedIds(games_queue)
                    /\ \A q \in games_queue :
                          q.appid \notin Range(w_batch')
                          => QueueTimestamp(games_queue, w_batch'[k]) <= q.timestamp
       /\ (w_pc' \in {"item", "item_known", "fetch", "store"})
           => \A k \in {j \in 1..Len(w_batch') : j > w_i'} :
                 /\ w_batch'[w_i'] \in QueuedIds(games_queue')
                 /\ w_batch'[k] \in QueuedIds(games_queue')
                 /\ QueueTimestamp(games_queue', w_batch'[w_i'])
                       <= QueueTimestamp(games_queue', w_batch'[k])
       /\ (w_pc = "store" /\ w_pc' # w_pc /\ Len(games_info') > Len(games_info))
           => games_info'[Len(games_info')].appid = w_batch[w_i]]_vars
\* C30's case: the queue held one entry more than a pass reads; the worker
\* is fetching the last item of a full batch, the items before it are cached,
\* and the entry left out of the batch is newer than none of them
C30_Witness ==
    /\ w_pc = "fetch"
    /\ Len(w_batch) = QUEUE_BATCH_LIMIT
    /\ w_i = QUEUE_BATCH_LIMIT
    /\ Len(games_info) = QUEUE_BATCH_LIMIT - 1
    /\ \E q \in games_queue :
         /\ q.appid \notin Range(w_batch)
         /\ q.timestamp >= QueueTimestamp(games_queue, w_batch[w_i])

\* C31: the worker acts on the termination flag only between queue items,
\* never in the middle of one item's fetch-and-commit: the step that exits is
\* taken at the head of the loop or at the head of an item, with no fetched
\* result in hand, and changes nothing in the store; and every step that adds
\* a cache row deletes the queue entry of the same identifier with it, so at
\* the exit every item started is fully committed or unchanged.
C31_TerminatesBetweenItems ==
    [][/\ (w_pc # "exited" /\ w_pc' = "exited")
           => /\ terminate
              /\ w_pc \in {"loop", "item"}
              /\ w_result = "none"
              /\ storeVars' = storeVars
       /\ (w_pc \in {"fetch", "store"} /\ w_pc' # w_pc)
           => w_pc' \in {"store", "except", "item", "loop"}
       /\ games_info' # games_info
           => /\ Len(games_info') = Len(games_info) + 1
              /\ games_info'[Len(games_info')].appid \in QueuedIds(games_queue)
              /\ games_info'[Len(games_info')].appid \notin QueuedIds(games_queue')]_vars
\* C31's case: the flag was raised during a batch; the worker has left at the
\* head of the second item: the first item is committed whole, the second is
\* as it was queued
C31_Witness ==
    /\ w_pc = "exited"
    /\ sd_pc # "join"
    /\ w_i = 2
    /\ Len(w_batch) = 2
    /\ w_batch[1] \in CachedIds(games_info)
    /\ w_batch[1] \notin QueuedIds(games_queue)
    /\ w_batch[2] \in QueuedIds(games_queue)
    /\ w_batch[2] \notin CachedIds(games_info)

\* the identifiers a step adds to the queue
NewlyQueued == QueuedIds(games_queue') \ QueuedIds(games_queue)

\* C32: submit persists the Job row and all the QueueEntry rows it creates in
\* one transaction: a step that adds a job row adds with it every entry the
\* submit built, all under the job's token; a step that adds queue entries
\* adds their job row; and a commit that fails leaves jobs and queue as they
\* were.
C32_JobAndEntriesInOneCommit ==
    [][/\ \A r \in requests_queue' \ requests_queue :
            \E c \in Clients :
               /\ pc[c] = "commit"
               /\ r = new_request[c]
               /\ new_queue[c] # {}
               /\ games_queue' = games_queue \cup new_queue[c]
               /\ \A q \in new_queue[c] : q.job_uuid = r.job_uuid
               /\ requests_queue' = requests_queue \cup {r}
       /\ NewlyQueued # {} => requests_queue' \ requests_queue # {}
       /\ \A c \in Clients :
            (pc[c] = "commit" /\ pc'[c] # "commit" /\ resp'[c].status = 500)
            => (requests_queue' = requests_queue /\ games_queue' = games_queue)]_vars
\* C32's case: a submit built a job and its entries, and its commit failed
\* (another submit had queued one of the identifiers in between): neither the
\* job nor any entry under its token is in the store
C32_Witness ==
    \E c \in Clients :
        /\ Done(c)
        /\ view[c] = "submit"
        /\ resp[c].status = 500
        /\ new_queue[c] # {}
        /\ \A r \in requests_queue : r # new_request[c]
        /\ \A q \in games_queue : q \notin new_queue[c]

\* the queue entries that carry the token of a job
EntriesOf(r) == {q \in games_queue : q.job_uuid = r.job_uuid}

C34_PollCountsRemainingEntries ==
    \A c \in Clients :
        (Done(c) /\ view[c] = "poll" /\ job_row[c] # NoCookie)
        => IF seen_queued[c] # {}
           THEN /\ resp[c].status = 202
                /\ resp[c].count = Cardinality(seen_queued[c])
           ELSE resp[c].status = 200

\* C35: once a cache row exists for an identifier, no operation (worker pass,
\* submit, poll, cleanup) deletes or modifies it, and the worker never calls
\* the metadata client for that identifier again; the set of cached
\* identifiers only grows. Every step keeps every cache row in its place, and
\* the worker is at its call of query_store only for an identifier that has
\* no cache row.
C35_CacheRowsAreImmutable ==
    [][/\ Len(games_info') >= Len(games_info)
       /\ \A k \in 1..Len(games_info) : games_info'[k] = games_info[k]
       /\ CachedIds(games_info) \subseteq CachedIds(games_info')
       /\ w_pc' = "fetch" => w_batch'[w_i'] \notin CachedIds(games_info')]_vars
\* C35's case: maintenance has run and left the cache alone, and an entry
\* queued for an identifier that was cached already (two jobs name it) has
\* been removed by the worker, which could not have fetched it again
C35_Witness ==
    /\ cleanups > 0
    /\ \E r1, r2 \in requests_queue :
         /\ r1.job_uuid # r2.job_uuid
         /\ \E i \in Range(r1.games_json) \cap Range(r2.games_json) :
              /\ Cardinality(GameInfoByKey(games_info, i)) = 1
              /\ i \notin QueuedIds(games_queue)

\* the entry of the item the worker is at belongs to no persisted job
Orphaned(a) ==
    \E q \in games_queue : q.appid = a /\ q.job_uuid \notin JobTokens(requests_queue)

\* C36: cleanup removes only Job rows: it leaves every QueueEntry, the entries
\* of the purged jobs included, and every cache row unchanged, and the worker
\* later fetches and removes those orphaned entries like any other: at an
\* orphaned entry without a cache row the worker goes on to the fetch, and
\* its store step caches the identifier and deletes the entry.
C36_CleanupLeavesQueueAndCache ==
    [][/\ cleanups' # cleanups
           => /\ games_queue' = games_queue
              /\ games_info' = games_info
              /\ requests_queue' \subseteq requests_queue
       /\ (w_pc = "item_known" /\ w_pc' # w_pc /\ Orphaned(queue_item)
              /\ ~GetGameInfo(games_info, queue_item))
           => (w_pc' = "fetch" /\ games_queue' = games_queue)
       /\ (w_pc = "store" /\ w_pc' # w_pc /\ Orphaned(queue_item))
           => /\ w_batch[w_i] \in CachedIds(games_info')
              /\ w_batch[w_i] \notin QueuedIds(games_queue')]_vars
\* C36's case: cleanup has purged the job of a queued identifier, the entry
\* stayed, and the worker has fetched it and is about to commit it
C36_Witness ==
    /\ cleanups > 0
    /\ w_pc = "store"
    /\ Orphaned(queue_item)
    /\ requests_queue = {}

\* how far a request has come: every step of a view takes it further
RequestStep(p) ==
    CASE p = "idle" -> 0
      [] p = "check" -> 1
      [] p = "check_queue" -> 2
      [] p = "commit" -> 3
      [] p = "notify" -> 4
      [] p = "notify_all" -> 5
      [] p = "finalize" -> 5
      [] p = "done" -> 6

\* C37: the request path never blocks on the fetch worker: a request that is
\* under way can always take its next step, whatever the worker is doing,
\* except that its notify may find the condition held by the worker, and then
\* the worker is at the release that ends its _wait (not in a fetch, not in a
\* wait); and every step of a request takes it further towards its response,
\* so a submit or a poll is done after at most six steps of its own.
C37_RequestsNeverBlockOnWorker ==
    [][\A c \in Clients :
          /\ pc[c] # "idle"
              => \/ ENABLED Request(c)
                 \/ /\ pc[c] = "notify_all"
                    /\ cond_owner = "fetcher"
                    /\ w_pc = "wait_exit"
                    /\ ENABLED W_WaitExit
          /\ pc'[c] # pc[c]
              => \/ RequestStep(pc'[c]) > RequestStep(pc[c])
                 \/ (pc[c] = "done" /\ pc'[c] = "idle")]_vars
\* C37's case: a submit has committed and is at its notify_all while the
\* worker, woken from a backoff wait, still holds the condition
C37_Witness ==
    /\ pc[1] = "notify_all"
    /\ view[1] = "submit"
    /\ cond_owner = "fetcher"
    /\ w_pc = "wait_exit"
    /\ wait_rl

\* an entry is in the queue when the new worker enters run()
LeftAtRestart(i) ==
    /\ jobs_at_restart # {}
    /\ w_pc = "loop"
    /\ i \in QueuedIds(games_queue)

\* C38 (as claimed): after a restart with entries left in the queue, the new
\* worker processes them from the entry of run(), and a job created before
\* the restart is polled to completion: under fair scheduling and with every
\* fetch answered, an entry that is queued when the worker is at the head of
\* its loop is later out of the queue, and a client that holds the token of a
\* job that was in the store at the restart later gets the finalized table
\* from a poll of that token, unless it submits again.
C38_RestartDrainsAndCompletes ==
    /\ \A i \in Ids : LeftAtRestart(i) ~> (i \notin QueuedIds(games_queue))
    /\ \A t \in 1..MaxJobs :
          (t \in jobs_at_restart /\ cookie[1] = t)
          ~> \/ (Done(1) /\ view[1] = "poll" /\ job_row[1] = t
                         /\ resp[1].status = 200)
             \/ FurtherSubmit

\* C39: a poll never finalizes a job while an identifier of its snapshot lacks
\* a cache row, whatever the worker, the maintenance and the clock did in
\* between: a poll that is about to finalize has every identifier of its
\* snapshot cached, so that the lookup of each identifier in
\* finalize_extended_export finds its row, and a poll of a job with an
\* uncached identifier is not answered with the table.
C39_PollFinalizesOnlyCachedJobs ==
    \A c \in Clients :
        /\ (pc[c] = "finalize" /\ view[c] = "poll")
              => /\ Requested(c) \subseteq CachedIds(games_info)
                 /\ ~finalize_extended_export(games_info, req_ids[c]).raised
        /\ (Done(c) /\ view[c] = "poll" /\ job_row[c] # NoCookie
                    /\ ~(Requested(c) \subseteq CachedIds(games_info)))
              => resp[c].status # 200
\* C39's case: the worker has cached a row, a job with an identifier that is
\* still uncached was polled, and the poll was answered pending
C39_Witness ==
    \E c \in Clients :
        /\ Done(c) /\ view[c] = "poll" /\ job_row[c] # NoCookie
        /\ ~(Requested(c) \subseteq CachedIds(games_info))
        /\ games_info # <<>>
        /\ resp[c].status = 202

\* C40: in every reachable state each identifier in the snapshot of every
\* persisted job has a cache row or a queue entry, under whatever token:
\* submits, worker passes, polls and the maintenance never leave a job with an
\* identifier that is neither cached nor queued.
C40_SnapshotIdsCachedOrQueued ==
    \A r \in requests_queue :
        Range(r.games_json) \subseteq
            (CachedIds(games_info) \cup QueuedIds(games_queue))
\* C40's case: the maintenance has run, and a persisted job has one identifier
\* the worker has cached and another that is still queued
C40_Witness ==
    /\ cleanups > 0
    /\ \E r \in requests_queue :
          /\ Range(r.games_json) \cap CachedIds(games_info) # {}
          /\ Range(r.games_json) \cap QueuedIds(games_queue) # {}

\* C10's case: a fetch raised, the handler ran, and run() goes back to its loop
C10_Witness ==
    /\ w_pc = "wait_exit"
    /\ w_after \in {"continue", "break"}
    /\ ~terminate

====
